---- MODULE Spec2Model ----
(***************************************************************************)
(* Stream-job reconciliation of main.py (MainApp): the configuration is    *)
(* reloaded on start-up and on every change of the file, and one worker    *)
(* process per video_url is started, restarted or stopped to follow it.    *)
(***************************************************************************)
EXTENDS Integers, Sequences, FiniteSets, TLC

(***************************************************************************)
(* Python values.  A value is a pair <<type, payload>>, so that None, the  *)
(* string 'None' and a key that is absent from a dict are three different  *)
(* things.  A dict payload is the sequence of its <<key, value>> items in  *)
(* insertion order (both strings here), which is the order Python keeps.   *)
(***************************************************************************)
None == <<"none", "">>

Missing == <<"missing", "">>

Str(s) == <<"str", s>>

PyTrue == <<"bool", "True">>

PyFalse == <<"bool", "False">>

Dict(items) == <<"dict", items>>

Date(n) == <<"date", n>>

\* repr() of the items of a dict, as str(dict) prints them
RECURSIVE ReprItems(_)
ReprItems(items) ==
    IF items = <<>> THEN ""
    ELSE "'" \o items[1][1] \o "': '" \o items[1][2] \o "'"
         \o (IF Len(items) > 1 THEN ", " ELSE "")
         \o ReprItems(Tail(items))

\* repr(v): what str(dict) prints for a value v of the dict
Repr(v) ==
    CASE v[1] = "str"  -> "'" \o v[2] \o "'"
      [] v[1] = "none" -> "None"
      [] v[1] = "bool" -> v[2]
      [] v[1] = "dict" -> "{" \o ReprItems(v[2]) \o "}"

\* format(v): what an f-string prints for v (a string goes in unquoted)
Format(v) ==
    CASE v[1] = "str"  -> v[2]
      [] v[1] = "none" -> "None"
      [] v[1] = "bool" -> v[2]

\* config.get(key, default) on a field value
Get(v, default) == IF v = Missing THEN default ELSE v

DefaultStreamName == Str("prediction_visual")

(***************************************************************************)
(* compute_config_hash: str() of the dict of the six relevant fields.      *)
(* config[k] raises KeyError when k is absent; only stream_name has a      *)
(* default.                                                                *)
(***************************************************************************)
HashRaises(config) ==
    \/ config.video_url = Missing
    \/ config.model_key = Missing
    \/ config.site = Missing
    \/ config.notifications = Missing
    \/ config.detect_with_server = Missing

HashWithoutDetectFlag(config) ==
    "{'video_url': " \o Repr(config.video_url)
    \o ", 'model_key': " \o Repr(config.model_key)
    \o ", 'site': " \o Repr(config.site)
    \o ", 'stream_name': " \o Repr(Get(config.stream_name, DefaultStreamName))
    \o ", 'notifications': " \o Repr(config.notifications)
    \o "}"

compute_config_hash(config) ==
    "{'video_url': " \o Repr(config.video_url)
    \o ", 'model_key': " \o Repr(config.model_key)
    \o ", 'site': " \o Repr(config.site)
    \o ", 'stream_name': " \o Repr(Get(config.stream_name, DefaultStreamName))
    \o ", 'notifications': " \o Repr(config.notifications)
    \o ", 'detect_with_server': " \o Repr(config.detect_with_server)
    \o "}"

\* f"{site}_{stream_name}" of a config: the key of its frames in Redis
KeyRaises(config) == config.site = Missing

DerivedKey(config) ==
    Format(config.site) \o "_"
    \o Format(Get(config.stream_name, DefaultStreamName))

\* AppConfig: a record of the YAML file (total=False: any key may be absent)
AppConfig(url, model, site, stream, notif, detect, expire) ==
    [video_url |-> url, model_key |-> model, site |-> site,
     stream_name |-> stream, notifications |-> notif,
     detect_with_server |-> detect, expire_date |-> expire,
     line_token |-> Missing, language |-> Missing]

U1 == Str("rtsp://one")

U2 == Str("rtsp://two")

(***************************************************************************)
(* The configs the fingerprint is compared on: every field takes at least  *)
(* two values, None and the string 'None' among them, a stream_name that   *)
(* is absent and one that is the default, and two dicts with the same      *)
(* items in another order.                                                 *)
(***************************************************************************)
NotifEnZh == Dict(<< <<"tokenA", "en">>, <<"tokenB", "zh">> >>)

NotifZhEn == Dict(<< <<"tokenB", "zh">>, <<"tokenA", "en">> >>)


(***************************************************************************)
(* Dicts of the reconciler, in insertion order: sequences of items         *)
(* [k |-> key, v |-> value].                                               *)
(***************************************************************************)
Has(d, k) == \E i \in 1..Len(d) : d[i].k = k

Lookup(d, k) == d[CHOOSE i \in 1..Len(d) : d[i].k = k].v

Put(d, k, v) ==
    IF Has(d, k)
    THEN [i \in 1..Len(d) |-> IF d[i].k = k THEN [k |-> k, v |-> v] ELSE d[i]]
    ELSE Append(d, [k |-> k, v |-> v])

Del(d, k) == SelectSeq(d, LAMBDA e : e.k # k)

Keys(d) == [i \in 1..Len(d) |-> d[i].k]

\* Utils.is_expired(config.get('expire_date')): now > expiry, never without one
is_expired(config, now) ==
    /\ config.expire_date[1] = "date"
    /\ now > config.expire_date[2]

\* {config['video_url']: config for config in configurations}
RECURSIVE current_configs(_)
current_configs(configurations) ==
    IF configurations = <<>> THEN <<>>
    ELSE LET n == Len(configurations)
         IN  Put(current_configs(SubSeq(configurations, 1, n - 1)),
                 configurations[n].video_url, configurations[n])

ConfigsRaise(configurations) ==
    \E i \in 1..Len(configurations) : configurations[i].video_url = Missing

\* the set of f"{site}_{stream_name}" over every record of the file
current_keys(configurations) ==
    {DerivedKey(configurations[i]) : i \in 1..Len(configurations)}

KeysRaise(configurations) ==
    \E i \in 1..Len(configurations) : KeyRaises(configurations[i])

(***************************************************************************)
(* The configuration files the reconciler is run on: at most MaxRecords    *)
(* records, no video_url twice (it is the unique key of a record).         *)
(***************************************************************************)
MaxRecords == 2

MaxTasks == 3

MaxProcs == 3

MaxClock == 2

Base(u) == AppConfig(u, Str("yolo11n"), Str("siteA"), Missing, None, PyFalse, Missing)

RecordPool ==
    { Base(U1),
      [Base(U1) EXCEPT !.stream_name = Str("cam")],
      [Base(U1) EXCEPT !.expire_date = Date(0)],
      [Base(U1) EXCEPT !.expire_date = Date(1)],
      [Base(U1) EXCEPT !.model_key = Missing],
      Base(U2),
      [Base(U2) EXCEPT !.expire_date = Date(0)],
      [Base(U1) EXCEPT !.video_url = Missing] }

Files ==
    { f \in UNION { [1..n -> RecordPool] : n \in 0..MaxRecords } :
        \A i, j \in 1..Len(f) : i # j => f[i].video_url # f[j].video_url }

\* the files of the calls that are in flight together
FewFiles ==
    { f \in Files : \A i \in 1..Len(f) :
        f[i] \in {Base(U1), [Base(U1) EXCEPT !.stream_name = Str("cam")], Base(U2)} }

Tasks == 1..MaxTasks

VARIABLES
    running_processes,      \* video_url -> [process, config]
    current_config_hashes,  \* video_url -> fingerprint
    lock,                   \* [owner |-> task or 0, waiters |-> tasks in order]
    procs,                  \* the worker processes ever started, by handle
    redis,                  \* the keys that hold frames
    now,                    \* the clock
    task,                   \* the calls of reload_configurations
    hcfg,                   \* the two configs whose fingerprints were compared last
    hres,                   \* their fingerprints
    pair,                   \* the outcomes of a call on a file and on the file
                            \* with one more record, from the same state
    notify,                 \* the notification state of the frame loops
    capture,                \* a capture session of StreamCapture
    frame_loop              \* the frame loop of one worker, frame by frame

rvars == <<running_processes, current_config_hashes, lock, procs, redis, now, task>>

vars == <<running_processes, current_config_hashes, lock, procs, redis, now, task,
          hcfg, hres, pair, notify, capture, frame_loop>>

\* read is the place of the call's read of the file among the reads that gave
\* a snapshot: 0 before the read and when the read raised
IdleTask == [pc |-> "idle", configurations |-> <<>>, todo |-> <<>>,
             branch |-> "", key |-> "", log |-> <<>>, at |-> 0, error |-> "",
             read |-> 0]

ReconcilerIdle ==
    /\ running_processes = <<>>
    /\ current_config_hashes = <<>>
    /\ lock = [owner |-> 0, waiters |-> <<>>]
    /\ procs = <<>>
    /\ redis = {}
    /\ now = 1
    /\ task = [t \in Tasks |-> IdleTask]

(***************************************************************************)
(* Worker processes.  start_process makes a process run process_streams    *)
(* on the config; stop_process sends it SIGTERM and joins it.              *)
(***************************************************************************)
start_process(ps, config) ==
    Append(ps, [config |-> config, st |-> "alive", term |-> FALSE])

terminate(ps, pid) == [ps EXCEPT ![pid].term = TRUE]

\* stop_process without the join: terminate() alone returns at once
JoinedAtOnce(ps, pid) == TRUE

Joined(ps, pid) == ps[pid].st = "dead"

\* a worker stores a frame under its key
WorkerPushes(p) ==
    /\ p \in DOMAIN procs
    /\ procs[p].st = "alive"
    /\ redis' = redis \cup {DerivedKey(procs[p].config)}
    /\ UNCHANGED <<running_processes, current_config_hashes, lock, procs, now, task, hcfg, hres, pair, notify, capture, frame_loop>>

\* the frame loop of a worker ends or fails: the finally clause of process_streams
\* deletes its key and the process ends
WorkerExits(p) ==
    /\ p \in DOMAIN procs
    /\ procs[p].st = "alive"
    /\ ~procs[p].term
    /\ redis' = redis \ {DerivedKey(procs[p].config)}
    /\ procs' = [procs EXCEPT ![p].st = "dead"]
    /\ UNCHANGED <<running_processes, current_config_hashes, lock, now, task, hcfg, hres, pair, notify, capture, frame_loop>>

\* SIGTERM ends a worker at once, its finally clause not run
WorkerTerminated(p) ==
    /\ p \in DOMAIN procs
    /\ procs[p].st = "alive"
    /\ procs[p].term
    /\ procs' = [procs EXCEPT ![p].st = "dead"]
    /\ UNCHANGED <<running_processes, current_config_hashes, lock, redis, now, task, hcfg, hres, pair, notify, capture, frame_loop>>

\* a worker that does not react to SIGTERM (blocked where no signal reaches it)
WorkerIgnoresTerm(p) ==
    /\ p \in DOMAIN procs
    /\ procs[p].st = "alive"
    /\ procs[p].term
    /\ procs' = [procs EXCEPT ![p].st = "stuck"]
    /\ UNCHANGED <<running_processes, current_config_hashes, lock, redis, now, task, hcfg, hres, pair, notify, capture, frame_loop>>

Tick ==
    /\ now < MaxClock
    /\ now' = now + 1
    /\ UNCHANGED <<running_processes, current_config_hashes, lock, procs, redis, task, hcfg, hres, pair, notify, capture, frame_loop>>

(***************************************************************************)
(* reload_configurations, one action per stretch of code between two       *)
(* points where the call can be suspended or blocked.                      *)
(***************************************************************************)
\* the comparison of the fingerprints left out: a changed record is kept
DecideWithoutRestart(rp, hashes, configurations, url, clock) ==
    LET cc == current_configs(configurations)
    IN  IF ~Has(cc, url) \/ is_expired(Lookup(cc, url), clock) THEN "remove"
        ELSE IF HashRaises(Lookup(cc, url)) THEN "raise"
        ELSE "keep"

\* the record compared with the recorded config, expire_date and all,
\* in place of the fingerprints
DecideOnSnapshot(rp, hashes, configurations, url, clock) ==
    LET cc == current_configs(configurations)
    IN  IF ~Has(cc, url) \/ is_expired(Lookup(cc, url), clock) THEN "remove"
        ELSE IF HashRaises(Lookup(cc, url)) THEN "raise"
        ELSE IF ~Has(hashes, url) \/ Lookup(cc, url) # Lookup(rp, url).config
             THEN "restart"
        ELSE "keep"

\* lines 115-145 for one video_url: what is done with its worker
Decide(rp, hashes, configurations, url, clock) ==
    LET cc == current_configs(configurations)
    IN  IF ~Has(cc, url) \/ is_expired(Lookup(cc, url), clock) THEN "remove"
        ELSE IF HashRaises(Lookup(cc, url)) THEN "raise"
        ELSE IF ~Has(hashes, url)
                \/ compute_config_hash(Lookup(cc, url)) # Lookup(hashes, url)
             THEN "restart"
        ELSE "keep"

\* the key deleted whether or not a record of the file still has it
StaleKeyAlways(rp, configurations, url) == TRUE

\* the keys of the other records only: the record of the video_url itself
\* not counted
StaleKeyAmongOthers(rp, configurations, url) ==
    DerivedKey(Lookup(rp, url).config) \notin
        {DerivedKey(configurations[i]) :
            i \in {j \in 1..Len(configurations) : configurations[j].video_url # url}}

\* key_to_delete not in current_keys
StaleKey(rp, configurations, url) ==
    DerivedKey(Lookup(rp, url).config) \notin current_keys(configurations)

\* the handle and the config recorded for a video_url
Recorded(config, pid) == [process |-> pid, config |-> config]

\* lines 159-167 and 179-187 but for the fingerprint: a worker is started on
\* config and recorded, with its config, under the video_url
StartAndRecord(rp, ps, url, config) ==
    Put(rp, url, Recorded(config, Len(ps) + 1))

Stop(url, key) == <<"stop", url, key>>

Start(url) == <<"start", url>>

Delete(key) == <<"delete", key>>

\* the reads of the file that gave a snapshot, so far
ReadsSoFar == Cardinality({u \in Tasks : task[u].read > 0})

\* a call of reload_configurations begins: the file, which holds f, is read
\* (lines 97-102) and the call queues for the lock
ReadFile(t, f) ==
    /\ IF ConfigsRaise(f)
       THEN /\ task' = [task EXCEPT ![t] = [@ EXCEPT !.pc = "failed"]]
            /\ UNCHANGED lock
       ELSE /\ task' = [task EXCEPT ![t] = [@ EXCEPT !.pc = "lock",
                                                     !.configurations = f,
                                                     !.read = ReadsSoFar + 1]]
            /\ lock' = [lock EXCEPT !.waiters = Append(@, t)]
    /\ UNCHANGED <<running_processes, current_config_hashes, procs, redis, now, hcfg, hres, pair, notify, capture, frame_loop>>

Ended(t) == task[t].pc \in {"done", "failed"}

\* The first call is the one of start-up (line 200); the observer of the file
\* is started only once it has returned (lines 203-212), and every change of
\* the file then calls reload_configurations again.  Here a change comes when
\* the calls before it have ended.
Reload(t) ==
    /\ task[t].pc = "idle"
    /\ t = 1 \/ task[1].pc = "done"
    /\ \A u \in 1..(t - 1) : Ended(u)
    /\ \E f \in Files : ReadFile(t, f)

\* The same, the file changing at any time: calls are in flight together.
ReloadAnyTime(t) ==
    /\ task[t].pc = "idle"
    /\ t = 1 \/ task[1].pc = "done"
    /\ \E f \in FewFiles : ReadFile(t, f)

\* a lock that wakes its waiters last come, first served
AcquireLastWaiter(t) ==
    /\ task[t].pc = "lock"
    /\ lock.owner = 0
    /\ lock.waiters # <<>> /\ lock.waiters[Len(lock.waiters)] = t
    /\ lock' = [owner |-> t,
                waiters |-> SubSeq(lock.waiters, 1, Len(lock.waiters) - 1)]
    /\ task' = [task EXCEPT ![t] =
         IF KeysRaise(@.configurations)
         THEN [@ EXCEPT !.pc = "raise", !.error = "KeyError"]
         ELSE [@ EXCEPT !.pc = "loop1", !.todo = Keys(running_processes),
                        !.at = now]]
    /\ UNCHANGED <<running_processes, current_config_hashes, procs, redis, now, hcfg, hres, pair, notify, capture, frame_loop>>

\* the body of reload_configurations entered without the lock
AcquireWithoutLock(t) ==
    /\ task[t].pc = "lock"
    /\ lock' = [owner |-> t, waiters |-> SelectSeq(lock.waiters, LAMBDA u : u # t)]
    /\ task' = [task EXCEPT ![t] =
         IF KeysRaise(@.configurations)
         THEN [@ EXCEPT !.pc = "raise", !.error = "KeyError"]
         ELSE [@ EXCEPT !.pc = "loop1", !.todo = Keys(running_processes),
                        !.at = now]]
    /\ UNCHANGED <<running_processes, current_config_hashes, procs, redis, now, hcfg, hres, pair, notify, capture, frame_loop>>

\* async with self.lock (line 104), then current_keys (lines 106-112)
Acquire(t) ==
    /\ task[t].pc = "lock"
    /\ lock.owner = 0
    /\ lock.waiters # <<>> /\ Head(lock.waiters) = t
    /\ lock' = [owner |-> t, waiters |-> Tail(lock.waiters)]
    /\ task' = [task EXCEPT ![t] =
         IF KeysRaise(@.configurations)
         THEN [@ EXCEPT !.pc = "raise", !.error = "KeyError"]
         ELSE [@ EXCEPT !.pc = "loop1", !.todo = Keys(running_processes),
                        !.at = now]]
    /\ UNCHANGED <<running_processes, current_config_hashes, procs, redis, now, hcfg, hres, pair, notify, capture, frame_loop>>

\* the first loop (lines 115-167) up to stop_process: process.terminate()
Loop1(t) ==
    /\ task[t].pc = "loop1"
    /\ IF task[t].todo = <<>>
       THEN /\ task' = [task EXCEPT ![t] = [@ EXCEPT !.pc = "loop2",
                           !.todo = Keys(current_configs(task[t].configurations))]]
            /\ UNCHANGED procs
       ELSE LET url == Head(task[t].todo)
                what == Decide(running_processes, current_config_hashes,
                               task[t].configurations, url, now)
            IN  CASE what = "keep" ->
                       /\ task' = [task EXCEPT ![t] = [@ EXCEPT !.todo = Tail(@)]]
                       /\ UNCHANGED procs
                  [] what = "raise" ->
                       /\ task' = [task EXCEPT ![t] = [@ EXCEPT !.pc = "raise",
                                      !.error = "KeyError"]]
                       /\ UNCHANGED procs
                  [] OTHER ->
                       /\ procs' = terminate(procs,
                                       Lookup(running_processes, url).process)
                       /\ task' = [task EXCEPT ![t] = [@ EXCEPT !.pc = "join",
                                      !.branch = what,
                                      !.log = Append(@, Stop(url,
                                          DerivedKey(Lookup(running_processes, url).config)))]]
    /\ UNCHANGED <<running_processes, current_config_hashes, lock, redis, now, hcfg, hres, pair, notify, capture, frame_loop>>

\* process.join() returns (line 538); then lines 131-137 or 154-167, up to the
\* await of redis_manager.delete if the key is to be deleted
Join(t) ==
    /\ task[t].pc = "join"
    /\ LET url == Head(task[t].todo)
           entry == Lookup(running_processes, url)
           stale == StaleKey(running_processes, task[t].configurations, url)
           config == Lookup(current_configs(task[t].configurations), url)
       IN  /\ Joined(procs, entry.process)
           /\ IF task[t].branch = "remove"
              THEN /\ running_processes' = Del(running_processes, url)
                   /\ IF ~Has(current_config_hashes, url)
                      THEN /\ task' = [task EXCEPT ![t] = [@ EXCEPT !.pc = "raise",
                                          !.error = "KeyError"]]
                           /\ UNCHANGED current_config_hashes
                      ELSE /\ current_config_hashes' = Del(current_config_hashes, url)
                           /\ task' = [task EXCEPT ![t] =
                                IF stale
                                THEN [@ EXCEPT !.pc = "delete",
                                       !.key = DerivedKey(entry.config)]
                                ELSE [@ EXCEPT !.pc = "loop1", !.todo = Tail(@)]]
                   /\ UNCHANGED procs
              ELSE IF stale
              THEN /\ task' = [task EXCEPT ![t] = [@ EXCEPT !.pc = "delete",
                                  !.key = DerivedKey(entry.config)]]
                   /\ UNCHANGED <<running_processes, current_config_hashes, procs>>
              ELSE /\ Len(procs) < MaxProcs
                   /\ procs' = start_process(procs, config)
                   /\ running_processes' =
                        StartAndRecord(running_processes, procs, url, config)
                   /\ current_config_hashes' =
                        Put(current_config_hashes, url, compute_config_hash(config))
                   /\ task' = [task EXCEPT ![t] = [@ EXCEPT !.pc = "loop1",
                                  !.todo = Tail(@), !.log = Append(@, Start(url))]]
    /\ UNCHANGED <<lock, redis, now, hcfg, hres, pair, notify, capture, frame_loop>>

\* await redis_manager.delete(key_to_delete) returns (lines 137, 155); the
\* restart goes on to start the new worker (lines 159-167)
Deleted(t) ==
    /\ task[t].pc = "delete"
    /\ redis' = redis \ {task[t].key}
    /\ LET url == Head(task[t].todo)
           config == Lookup(current_configs(task[t].configurations), url)
       IN  IF task[t].branch = "remove"
           THEN /\ task' = [task EXCEPT ![t] = [@ EXCEPT !.pc = "loop1",
                               !.todo = Tail(@),
                               !.log = Append(@, Delete(task[t].key))]]
                /\ UNCHANGED <<running_processes, current_config_hashes, procs>>
           ELSE /\ Len(procs) < MaxProcs
                /\ procs' = start_process(procs, config)
                /\ running_processes' =
                     StartAndRecord(running_processes, procs, url, config)
                /\ current_config_hashes' =
                     Put(current_config_hashes, url, compute_config_hash(config))
                /\ task' = [task EXCEPT ![t] = [@ EXCEPT !.pc = "loop1",
                               !.todo = Tail(@),
                               !.log = @ \o <<Delete(task[t].key), Start(url)>>]]
    /\ UNCHANGED <<lock, now, hcfg, hres, pair, notify, capture, frame_loop>>

\* await redis_manager.delete(key_to_delete) raises: the store is not reachable
DeleteRaises(t) ==
    /\ task[t].pc = "delete"
    /\ task' = [task EXCEPT ![t] = [@ EXCEPT !.pc = "raise",
                   !.error = "RedisError"]]
    /\ UNCHANGED <<running_processes, current_config_hashes, lock, procs, redis, now, hcfg, hres, pair, notify, capture, frame_loop>>

\* the second loop (lines 170-187), one record of the file
Loop2(t) ==
    /\ task[t].pc = "loop2"
    /\ IF task[t].todo = <<>>
       THEN /\ task' = [task EXCEPT ![t] = [@ EXCEPT !.pc = "exit"]]
            /\ UNCHANGED <<running_processes, current_config_hashes, procs>>
       ELSE LET url == Head(task[t].todo)
                config == Lookup(current_configs(task[t].configurations), url)
            IN  IF is_expired(config, now) \/ Has(running_processes, url)
                THEN /\ task' = [task EXCEPT ![t] = [@ EXCEPT !.todo = Tail(@)]]
                     /\ UNCHANGED <<running_processes, current_config_hashes, procs>>
                ELSE /\ Len(procs) < MaxProcs
                     /\ procs' = start_process(procs, config)
                     /\ running_processes' =
                          StartAndRecord(running_processes, procs, url, config)
                     /\ IF HashRaises(config)
                        THEN /\ task' = [task EXCEPT ![t] = [@ EXCEPT !.pc = "raise",
                                            !.error = "KeyError",
                                            !.log = Append(@, Start(url))]]
                             /\ UNCHANGED current_config_hashes
                        ELSE /\ current_config_hashes' =
                                  Put(current_config_hashes, url,
                                      compute_config_hash(config))
                             /\ task' = [task EXCEPT ![t] = [@ EXCEPT
                                            !.todo = Tail(@),
                                            !.log = Append(@, Start(url))]]
    /\ UNCHANGED <<lock, redis, now, hcfg, hres, pair, notify, capture, frame_loop>>

\* the lock released by the last line of the body only: a call that raises
\* ends with the lock still its own
ReleaseOnReturn(t) ==
    /\ task[t].pc \in {"exit", "raise"}
    /\ lock' = IF task[t].pc = "exit" THEN [lock EXCEPT !.owner = 0] ELSE lock
    /\ task' = [task EXCEPT ![t] = [IdleTask EXCEPT !.pc =
                   IF task[t].pc = "exit" THEN "done" ELSE "failed",
                   !.read = task[t].read]]
    /\ UNCHANGED <<running_processes, current_config_hashes, procs, redis, now, hcfg, hres, pair, notify, capture, frame_loop>>

\* the lock is released as the call leaves the async with block, whether it
\* returns or raises
Release(t) ==
    /\ task[t].pc \in {"exit", "raise"}
    /\ lock' = [lock EXCEPT !.owner = 0]
    /\ task' = [task EXCEPT ![t] = [IdleTask EXCEPT !.pc =
                   IF task[t].pc = "exit" THEN "done" ELSE "failed",
                   !.read = task[t].read]]
    /\ UNCHANGED <<running_processes, current_config_hashes, procs, redis, now, hcfg, hres, pair, notify, capture, frame_loop>>

PassStep(t) ==
    \/ Acquire(t)
    \/ Loop1(t)
    \/ Join(t)
    \/ Deleted(t)
    \/ DeleteRaises(t)
    \/ Loop2(t)
    \/ Release(t)

Pids == 1..MaxProcs

WorkerStep(p) ==
    \/ WorkerPushes(p)
    \/ WorkerExits(p)
    \/ WorkerTerminated(p)
    \/ WorkerIgnoresTerm(p)

Init ==
    /\ ReconcilerIdle
    /\ hcfg = <<>>
    /\ hres = <<>>
    /\ pair = <<>>
    /\ notify = <<>>
    /\ capture = <<>>
    /\ frame_loop = <<>>

Next ==
    \/ \E t \in Tasks : Reload(t) \/ PassStep(t)
    \/ \E p \in Pids : WorkerStep(p)
    \/ Tick

NextInFlight ==
    \/ \E t \in Tasks : ReloadAnyTime(t) \/ PassStep(t)
    \/ \E p \in Pids : WorkerStep(p)
    \/ Tick

Spec == Init /\ [][Next]_vars

SpecInFlight == Init /\ [][NextInFlight]_vars


(***************************************************************************)
(* reload_configurations as a function of the state it starts in, the file *)
(* and the clock, when it is not suspended for long: every worker it stops *)
(* ends on SIGTERM and every key deletion succeeds.  ok is FALSE when the  *)
(* call has raised.                                                        *)
(***************************************************************************)
Machine == [rp |-> running_processes, hashes |-> current_config_hashes,
            procs |-> procs, redis |-> redis, ok |-> TRUE]

\* stop_process: terminate() and a join() that returns
stop_process(ps, pid) == [terminate(ps, pid) EXCEPT ![pid].st = "dead"]

\* lines 116-167 for one video_url of running_processes
Loop1Entry(m, configurations, url, clock) ==
    LET what == Decide(m.rp, m.hashes, configurations, url, clock)
        entry == Lookup(m.rp, url)
        stopped == stop_process(m.procs, entry.process)
        kept == IF StaleKey(m.rp, configurations, url)
                THEN m.redis \ {DerivedKey(entry.config)} ELSE m.redis
        config == Lookup(current_configs(configurations), url)
    IN  CASE what = "keep" -> m
          [] what = "raise" -> [m EXCEPT !.ok = FALSE]
          [] what = "remove" ->
               IF ~Has(m.hashes, url)
               THEN [m EXCEPT !.procs = stopped, !.rp = Del(m.rp, url), !.ok = FALSE]
               ELSE [m EXCEPT !.procs = stopped, !.rp = Del(m.rp, url),
                              !.hashes = Del(m.hashes, url), !.redis = kept]
          [] what = "restart" ->
               [m EXCEPT !.procs = start_process(stopped, config),
                         !.rp = StartAndRecord(m.rp, stopped, url, config),
                         !.hashes = Put(m.hashes, url, compute_config_hash(config)),
                         !.redis = kept]

RECURSIVE Loop1All(_, _, _, _)
Loop1All(m, configurations, todo, clock) ==
    IF todo = <<>> \/ ~m.ok THEN m
    ELSE Loop1All(Loop1Entry(m, configurations, Head(todo), clock),
                  configurations, Tail(todo), clock)

\* the worker started and recorded, its fingerprint not stored
Loop2EntryWithoutHash(m, configurations, url, clock) ==
    LET config == Lookup(current_configs(configurations), url)
        started == [m EXCEPT !.procs = start_process(m.procs, config),
                             !.rp = StartAndRecord(m.rp, m.procs, url, config)]
    IN  IF is_expired(config, clock) \/ Has(m.rp, url) THEN m
        ELSE IF HashRaises(config) THEN [started EXCEPT !.ok = FALSE]
        ELSE started

\* lines 170-187 for one record of the file
Loop2Entry(m, configurations, url, clock) ==
    LET config == Lookup(current_configs(configurations), url)
        started == [m EXCEPT !.procs = start_process(m.procs, config),
                             !.rp = StartAndRecord(m.rp, m.procs, url, config)]
    IN  IF is_expired(config, clock) \/ Has(m.rp, url) THEN m
        ELSE IF HashRaises(config) THEN [started EXCEPT !.ok = FALSE]
        ELSE [started EXCEPT
                !.hashes = Put(m.hashes, url, compute_config_hash(config))]

RECURSIVE Loop2All(_, _, _, _)
Loop2All(m, configurations, todo, clock) ==
    IF todo = <<>> \/ ~m.ok THEN m
    ELSE Loop2All(Loop2Entry(m, configurations, Head(todo), clock),
                  configurations, Tail(todo), clock)

reload_configurations(m, configurations, clock) ==
    IF ConfigsRaise(configurations) \/ KeysRaise(configurations)
    THEN [m EXCEPT !.ok = FALSE]
    ELSE Loop2All(Loop1All(m, configurations, Keys(m.rp), clock),
                  configurations, Keys(current_configs(configurations)), clock)

\* the file f with the record e put in before its record number i + 1
WithRecord(f, e, i) == SubSeq(f, 1, i) \o <<e>> \o SubSeq(f, i + 1, Len(f))

\* records to add to a file: those of the pool, and one with no 'site', which
\* AppConfig (total=False) allows and process_streams reads with .get
NoSite(u, expire) ==
    AppConfig(u, Str("yolo11n"), Missing, Missing, None, PyFalse, expire)

MoreRecords == RecordPool \cup {NoSite(U2, Date(0))}

\* a call is run on a file; beside it, the same call from the same state on
\* the file with one more record, which is expired and of another video_url
ReloadBoth ==
    \E f \in Files, e \in MoreRecords :
        /\ is_expired(e, now)
        /\ \A i \in 1..Len(f) : f[i].video_url # e.video_url
        /\ \E i \in 0..Len(f) :
             LET without == reload_configurations(Machine, f, now)
                 with == reload_configurations(Machine, WithRecord(f, e, i), now)
             IN  /\ Len(without.procs) <= MaxProcs
                 /\ running_processes' = without.rp
                 /\ current_config_hashes' = without.hashes
                 /\ procs' = without.procs
                 /\ redis' = without.redis
                 /\ pair' = [without |-> [rp |-> without.rp, hashes |-> without.hashes],
                             with |-> [rp |-> with.rp, hashes |-> with.hashes],
                             extra |-> e, before |-> running_processes]
    /\ UNCHANGED <<lock, now, task, hcfg, hres, notify, capture, frame_loop>>

NextBoth ==
    \/ ReloadBoth
    \/ \E p \in Pids : WorkerPushes(p) \/ WorkerExits(p)
    \/ Tick

SpecBoth == Init /\ [][NextBoth]_vars

\* what a call has done: the workers started and stopped, the keys left,
\* and whether it raised
Effects(m) == [procs |-> m.procs, redis |-> m.redis, ok |-> m.ok]

\* a call is run on a file; beside it, the same call from the same state on
\* the file with one more record, which is expired and whose video_url has
\* no worker
ReloadWithExpired ==
    \E e \in MoreRecords :
        /\ is_expired(e, now)
        /\ ~Has(running_processes, e.video_url)
        /\ \E f \in FewFiles :
             /\ \A i \in 1..Len(f) : f[i].video_url # e.video_url
             /\ \E i \in 0..Len(f) :
                  LET without == reload_configurations(Machine, f, now)
                      with == reload_configurations(Machine, WithRecord(f, e, i), now)
                  IN  /\ Len(without.procs) <= MaxProcs
                      /\ running_processes' = without.rp
                      /\ current_config_hashes' = without.hashes
                      /\ procs' = without.procs
                      /\ redis' = without.redis
                      /\ pair' = [effects |-> [without |-> Effects(without),
                                               with |-> Effects(with)],
                                  extra |-> e, before |-> running_processes]
    /\ UNCHANGED <<lock, now, task, hcfg, hres, notify, capture, frame_loop>>

NextExpired ==
    \/ ReloadWithExpired
    \/ \E p \in Pids : WorkerPushes(p) \/ WorkerExits(p)
    \/ Tick

SpecExpired == Init /\ [][NextExpired]_vars

\* what the first loop decides for each video_url of running_processes
Decisions(m, configurations, clock) ==
    [i \in 1..Len(m.rp) |->
        Decide(m.rp, m.hashes, configurations, m.rp[i].k, clock)]

\* the video_urls the second loop starts a worker for (lines 170-187)
Launches(m, configurations, clock) ==
    LET cc == current_configs(configurations)
    IN  {cc[i].k : i \in {j \in 1..Len(cc) :
            ~is_expired(cc[j].v, clock) /\ ~Has(m.rp, cc[j].k)}}

\* a call is run on a file and, when it is over, a second call on the same
\* file at the same time of the clock
ReloadTwice ==
    \E f \in Files :
      \E first \in {reload_configurations(Machine, f, now)} :
        \E second \in {reload_configurations([first EXCEPT !.ok = TRUE], f, now)} :
            /\ Len(first.procs) <= MaxProcs
            /\ Len(second.procs) <= MaxProcs
            /\ running_processes' = second.rp
            /\ current_config_hashes' = second.hashes
            /\ procs' = second.procs
            /\ redis' = second.redis
            /\ pair' = [first |-> [rp |-> first.rp, hashes |-> first.hashes,
                                   ok |-> first.ok],
                        second |-> [rp |-> second.rp, hashes |-> second.hashes,
                                    ok |-> second.ok],
                        again |-> [started |-> Len(second.procs) > Len(first.procs),
                                   stopped |-> second.procs # first.procs,
                                   deleted |-> second.redis # first.redis],
                        started |-> Len(first.procs) > Len(procs),
                        stopped |-> \E p \in DOMAIN procs :
                                       /\ procs[p].st = "alive"
                                       /\ first.procs[p].st = "dead",
                        deleted |-> redis # first.redis,
                        decisions |-> IF ConfigsRaise(f) \/ KeysRaise(f) THEN <<>>
                                      ELSE Decisions(first, f, now),
                        launches |-> IF ConfigsRaise(f) \/ KeysRaise(f) THEN {}
                                     ELSE Launches(first, f, now)]
    /\ UNCHANGED <<lock, now, task, hcfg, hres, notify, capture, frame_loop>>

NextTwice ==
    \/ ReloadTwice
    \/ \E p \in Pids : WorkerPushes(p) \/ WorkerExits(p)
    \/ Tick

SpecTwice == Init /\ [][NextTwice]_vars

HashFields ==
    [video_url |-> {U1, U2},
     model_key |-> {Str("yolo11n"), Str("yolo11x")},
     site |-> {None, Str("None")},
     stream_name |-> {Missing, DefaultStreamName, Str("cam")},
     notifications |-> {None, NotifEnZh, NotifZhEn},
     detect_with_server |-> {PyFalse, PyTrue},
     expire_date |-> {Missing, Date(0)}]

HashBase ==
    AppConfig(U1, Str("yolo11n"), None, Missing, None, PyFalse, Missing)

HashInit ==
    /\ hcfg = <<HashBase, HashBase>>
    /\ hres = <<compute_config_hash(HashBase), compute_config_hash(HashBase)>>
    /\ ReconcilerIdle
    /\ pair = <<>>
    /\ notify = <<>>
    /\ capture = <<>>
    /\ frame_loop = <<>>

\* one field of one of the two configs is edited, and both are fingerprinted
CompareHashes ==
    \E i \in {1, 2}, k \in DOMAIN HashFields :
        \E v \in HashFields[k] :
            LET edited == [hcfg EXCEPT ![i] = [hcfg[i] EXCEPT ![k] = v]]
            IN  /\ hcfg' = edited
                /\ hres' = <<compute_config_hash(edited[1]),
                             compute_config_hash(edited[2])>>
                /\ UNCHANGED <<rvars, pair, notify, capture, frame_loop>>

HashNext == CompareHashes

SpecHash == HashInit /\ [][HashNext]_vars

(***************************************************************************)
(* The notifications of the frame loop of process_single_stream (lines     *)
(* 266-397).  Time is counted in units of 1/Scale second, so that the      *)
(* timestamp of a frame can have a fraction, which int() drops.            *)
(***************************************************************************)
Scale == 2

MaxFrames == 2

MaxWorkers == 2

Cooldown == 300

WorkFrom == 7

WorkUntil == 18

StatusOK == 200

Seconds(n) == n * Scale

\* int(timestamp), line 390
int(t) == (t \div Scale) * Scale

\* datetime.fromtimestamp(timestamp).hour (lines 273-274), the local time
\* taken without an offset
current_hour(t) == ((t \div Scale) \div 3600) % 24

\* s in w, for two strings
Contains(w, s) ==
    \E i \in 1..(Len(w) - Len(s) + 1) : SubSeq(w, i, i + Len(s) - 1) = s

NoHardhat == "Warning: Someone is not wearing a hardhat!"

OneInZone == "Warning: 1 people have entered the controlled area!"

TwoInZone == "Warning: 2 people have entered the controlled area!"

\* what danger_detector.detect_danger returns for a frame (line 280)
WarningLists ==
    {<<>>, <<NoHardhat>>, <<TwoInZone>>, <<NoHardhat, TwoInZone, OneInZone>>}

\* lines 285-298: the first warning with 'controlled area' in it, as a list
controlled_zone_warning(warnings) ==
    LET found == SelectSeq(warnings, LAMBDA w : Contains(w, "controlled area"))
    IN  IF found = <<>> THEN <<>> ELSE <<Head(found)>>

\* Translator.translate_warning: each warning put into the language
translate_warning(warnings, language) ==
    [i \in 1..Len(warnings) |-> <<warnings[i], language>>]

NoMessage == <<>>

\* the hours 7 <= h <= 18 taken as working hours
MessageUntilSix(t, warnings, language) ==
    LET zone == controlled_zone_warning(warnings)
        translated_warnings == translate_warning(warnings, language)
        working == WorkFrom <= current_hour(t) /\ current_hour(t) <= WorkUntil
    IN  IF zone # <<>> /\ ~working
        THEN [at |-> t, listed |-> TRUE, body |-> translate_warning(zone, language)]
        ELSE IF translated_warnings # <<>> /\ working
        THEN [at |-> t, listed |-> FALSE, body |-> translated_warnings]
        ELSE NoMessage

\* lines 323-363: the message of a frame for a language.  Outside working
\* hours it is the str() of the list of the translated zone warning (listed),
\* in working hours the translated warnings joined by newlines.
Message(t, warnings, language) ==
    LET zone == controlled_zone_warning(warnings)
        translated_warnings == translate_warning(warnings, language)
        working == WorkFrom <= current_hour(t) /\ current_hour(t) < WorkUntil
    IN  IF zone # <<>> /\ ~working
        THEN [at |-> t, listed |-> TRUE, body |-> translate_warning(zone, language)]
        ELSE IF translated_warnings # <<>> /\ working
        THEN [at |-> t, listed |-> FALSE, body |-> translated_warnings]
        ELSE NoMessage

Skipped(line_token) == <<"skip", line_token>>

Quiet(line_token, language) == <<"quiet", line_token, language>>

Sent(line_token, message, status) == <<"send", line_token, message, status>>

\* last_notification_time left as it is after a send
VisitKeepingTime(st, item, t, warnings, status) ==
    LET message == Message(t, warnings, item[2])
    IN  IF t - st.last < Seconds(Cooldown)
        THEN [st EXCEPT !.log = Append(@, Skipped(item[1]))]
        ELSE IF message = NoMessage
        THEN [st EXCEPT !.log = Append(@, Quiet(item[1], item[2]))]
        ELSE [st EXCEPT !.log = Append(@, Sent(item[1], message, status[item[1]]))]

\* last_notification_time set after every send, whatever its status
VisitAnyStatus(st, item, t, warnings, status) ==
    LET message == Message(t, warnings, item[2])
    IN  IF t - st.last < Seconds(Cooldown)
        THEN [st EXCEPT !.log = Append(@, Skipped(item[1]))]
        ELSE IF message = NoMessage
        THEN [st EXCEPT !.log = Append(@, Quiet(item[1], item[2]))]
        ELSE [last |-> int(t),
              log |-> Append(st.log, Sent(item[1], message, status[item[1]]))]

\* lines 310-397 for one item <<line_token, language>> of notifications; st
\* is last_notification_time with the log of what was done for the frame
Visit(st, item, t, warnings, status) ==
    LET message == Message(t, warnings, item[2])
    IN  IF t - st.last < Seconds(Cooldown)
        THEN [st EXCEPT !.log = Append(@, Skipped(item[1]))]
        ELSE IF message = NoMessage
        THEN [st EXCEPT !.log = Append(@, Quiet(item[1], item[2]))]
        ELSE [last |-> IF status[item[1]] = StatusOK THEN int(t) ELSE st.last,
              log |-> Append(st.log, Sent(item[1], message, status[item[1]]))]

RECURSIVE VisitAll(_, _, _, _, _)
VisitAll(st, items, t, warnings, status) ==
    IF items = <<>> THEN st
    ELSE VisitAll(Visit(st, Head(items), t, warnings, status),
                  Tail(items), t, warnings, status)

\* lines 305-310: the loop runs over notifications if there are any
Channels(notifications) ==
    IF notifications[1] = "dict" THEN notifications[2] ELSE <<>>

Workers == 1..MaxWorkers

NotifEn == Dict(<< <<"tokenA", "en">> >>)

NotificationsPool == {None, NotifEn, NotifEnZh}

Statuses == {StatusOK, 400}

\* the times, after the one before, at which a frame comes
Deltas ==
    {1, Seconds(100), Seconds(Cooldown) - 1, Seconds(Cooldown), Seconds(Cooldown + 1)}

\* 06:55:00 and 17:55:00 of a day
StartTimes == {Seconds(24900), Seconds(64500)}

\* the timestamps of the successful sends of a log
RECURSIVE Successes(_, _)
Successes(log, t) ==
    IF log = <<>> THEN <<>>
    ELSE (IF Head(log)[1] = "send" /\ Head(log)[4] = StatusOK THEN <<t>> ELSE <<>>)
         \o Successes(Tail(log), t)

\* Two workers whose configs have the same site and stream_name, so one key.
NotifyInit ==
    /\ ReconcilerIdle
    /\ hcfg = <<>>
    /\ hres = <<>>
    /\ pair = <<>>
    /\ capture = <<>>
    /\ frame_loop = <<>>
    /\ \E start \in StartTimes :
         notify = [clock |-> start,
                   worker |-> [w \in Workers |-> [started |-> FALSE, last |-> 0,
                                                   notifications |-> None]],
                   sent |-> <<>>,
                   frames |-> <<>>]

\* the frame loop begun as if a notification had just been sent
WorkerStartsFromNow(w) ==
    /\ ~notify.worker[w].started
    /\ \E n \in NotificationsPool :
         notify' = [notify EXCEPT !.worker[w] =
                      [started |-> TRUE, notifications |-> n,
                       last |-> int(notify.clock)]]
    /\ UNCHANGED <<rvars, hcfg, hres, pair, capture, frame_loop>>

\* start_process: process_single_stream begins (lines 266-267)
WorkerStarts(w) ==
    /\ ~notify.worker[w].started
    /\ \E n \in NotificationsPool :
         notify' = [notify EXCEPT !.worker[w] =
                      [started |-> TRUE, notifications |-> n,
                       last |-> int(notify.clock) - Seconds(Cooldown)]]
    /\ UNCHANGED <<rvars, hcfg, hres, pair, capture, frame_loop>>

\* the restart of lines 150-167 on a changed record: the new process begins
\* process_single_stream anew
WorkerRestarted(w) ==
    /\ notify.worker[w].started
    /\ notify.worker[w].last # int(notify.clock) - Seconds(Cooldown)
    /\ notify' = [notify EXCEPT !.worker[w].last = int(notify.clock) - Seconds(Cooldown)]
    /\ UNCHANGED <<rvars, hcfg, hres, pair, capture, frame_loop>>

\* one turn of the frame loop of a worker (lines 270-397)
Frame(w) ==
    /\ notify.worker[w].started
    /\ Len(notify.frames) < MaxFrames
    /\ \E delta \in Deltas, warnings \in WarningLists :
         LET items == Channels(notify.worker[w].notifications)
             tokens == {items[i][1] : i \in 1..Len(items)}
         IN  \E status \in [tokens -> Statuses] :
               LET t == notify.clock + delta
                   before == notify.worker[w].last
                   st == VisitAll([last |-> before, log |-> <<>>], items, t,
                                  warnings, status)
               IN  notify' = [notify EXCEPT
                       !.clock = t,
                       !.worker[w].last = st.last,
                       !.sent = @ \o Successes(st.log, t),
                       !.frames = Append(@, [worker |-> w, t |-> t, before |-> before,
                                             after |-> st.last, warnings |-> warnings,
                                             items |-> items, log |-> st.log])]
    /\ UNCHANGED <<rvars, hcfg, hres, pair, capture, frame_loop>>

NotifyNext == \E w \in Workers : WorkerStarts(w) \/ WorkerRestarted(w) \/ Frame(w)

SpecNotify == NotifyInit /\ [][NotifyNext]_vars

(***************************************************************************)
(* A capture session of StreamCapture (src/stream_capture.py, not among    *)
(* the files here: modelled from the specification and from what           *)
(* tests/src/stream_capture_test.py expects of it).                        *)
(***************************************************************************)
RetryBudget == 2

MaxReads == 8

MaxReleases == 2

RetryWait == 5

FailureThreshold == 5

\* the fixed ladder, best first
Ladder == <<"best", "1080p", "720p", "480p", "360p", "240p">>

\* what a source can advertise: the variants of the ladder and one outside it
Variants == {Ladder[i] : i \in 1..Len(Ladder)} \cup {"audio_only"}

\* download speeds in Mbps
Capacities == {0, 3, 4, 5, 7, 9, 10, 11, 20}

NoQuality == "none"

\* the variants tried for a download speed, in the order they are tried
preferred_qualities(download_speed) ==
    IF download_speed >= 10 THEN Ladder
    ELSE IF download_speed >= 5 THEN SubSeq(Ladder, 3, Len(Ladder))
    ELSE SubSeq(Ladder, 4, Len(Ladder))

\* the first of a list of variants that is advertised
RECURSIVE FirstAdvertised(_, _)
FirstAdvertised(qualities, advertised) ==
    IF qualities = <<>> THEN NoQuality
    ELSE IF Head(qualities) \in advertised THEN Head(qualities)
    ELSE FirstAdvertised(Tail(qualities), advertised)

\* the download speed left out: the best advertised variant whatever it is
SelectBest(download_speed, advertised) ==
    FirstAdvertised(Ladder, advertised)

select_quality_based_on_speed(download_speed, advertised) ==
    FirstAdvertised(preferred_qualities(download_speed), advertised)

NewSession ==
    [phase |-> "new", mode |-> "Direct", cap |-> None, constructed |-> 0,
     opens |-> 0, sleeps |-> <<>>, failed_opens |-> 0, fail_count |-> 0,
     reads |-> <<>>, download_speed |-> 0, advertised |-> {},
     selected |-> NoQuality, calls |-> 0, handle_released |-> 0,
     error |-> "", capture_interval |-> 1]

CaptureInit ==
    /\ ReconcilerIdle
    /\ hcfg = <<>>
    /\ hres = <<>>
    /\ pair = <<>>
    /\ notify = <<>>
    /\ capture = NewSession
    /\ frame_loop = <<>>

\* initialise_stream: cv2.VideoCapture(stream_url), opened or not
Initialise ==
    /\ capture.phase = "new"
    /\ \E opened \in BOOLEAN :
         capture' = [capture EXCEPT
             !.cap = <<"VideoCapture", "stream_url">>, !.constructed = @ + 1,
             !.failed_opens = IF opened THEN @ ELSE @ + 1,
             !.phase = IF opened THEN "Direct" ELSE "opening"]
    /\ UNCHANGED <<rvars, hcfg, hres, pair, notify, frame_loop>>

\* a new cv2.VideoCapture made for every retry
ReopenWithNewHandle(s, opened) ==
    [s EXCEPT !.sleeps = Append(@, RetryWait), !.constructed = @ + 1,
              !.opens = @ + 1,
              !.failed_opens = IF opened THEN @ ELSE @ + 1,
              !.phase = IF opened THEN "Direct" ELSE "opening"]

\* the stream is not opened: time.sleep(5), then cap.open(stream_url)
Reopen(s, opened) ==
    [s EXCEPT !.sleeps = Append(@, RetryWait), !.opens = @ + 1,
              !.failed_opens = IF opened THEN @ ELSE @ + 1,
              !.phase = IF opened THEN "Direct" ELSE "opening"]

Retry ==
    /\ capture.phase = "opening"
    /\ capture.opens < RetryBudget
    /\ \E opened \in BOOLEAN : capture' = Reopen(capture, opened)
    /\ UNCHANGED <<rvars, hcfg, hres, pair, notify, frame_loop>>

\* the retry budget is used up: initialisation fails
GiveUp ==
    /\ capture.phase = "opening"
    /\ capture.opens >= RetryBudget
    /\ capture' = [capture EXCEPT !.phase = "failed", !.cap = None]
    /\ UNCHANGED <<rvars, hcfg, hres, pair, notify, frame_loop>>

\* the count of failed reads never set back by a successful read
ReadCountingAll(s, ok) ==
    LET count == IF ok THEN s.fail_count ELSE s.fail_count + 1
    IN  [s EXCEPT !.reads = Append(@, [mode |-> "Direct", ok |-> ok]),
                  !.fail_count = count,
                  !.mode = IF count >= FailureThreshold THEN "Fallback" ELSE @,
                  !.phase = IF count >= FailureThreshold THEN "select" ELSE @]

\* a read in Direct mode: a successful one sets the count of failures back,
\* the fifth failure in a row makes the session go over to Fallback mode
Read(s, ok) ==
    LET count == IF ok THEN 0 ELSE s.fail_count + 1
    IN  [s EXCEPT !.reads = Append(@, [mode |-> "Direct", ok |-> ok]),
                  !.fail_count = count,
                  !.mode = IF count >= FailureThreshold THEN "Fallback" ELSE @,
                  !.phase = IF count >= FailureThreshold THEN "select" ELSE @]

ReadDirect ==
    /\ capture.phase = "Direct"
    /\ Len(capture.reads) < MaxReads
    /\ \E ok \in BOOLEAN : capture' = Read(capture, ok)
    /\ UNCHANGED <<rvars, hcfg, hres, pair, notify, frame_loop>>

\* capture_generic_frames begins: the download speed is measured, a variant
\* is selected among those the source advertises; none is fatal
SelectQuality ==
    /\ capture.phase = "select"
    /\ \E download_speed \in Capacities, advertised \in SUBSET Variants :
         LET selected == select_quality_based_on_speed(download_speed, advertised)
         IN  capture' = [capture EXCEPT
                 !.download_speed = download_speed,
                 !.advertised = advertised,
                 !.selected = selected,
                 !.phase = IF selected = NoQuality THEN "failed" ELSE "Fallback",
                 !.cap = IF selected = NoQuality THEN None ELSE @]
    /\ UNCHANGED <<rvars, hcfg, hres, pair, notify, frame_loop>>

\* a read from the selected variant: failures do not change the mode
ReadFallback ==
    /\ capture.phase = "Fallback"
    /\ Len(capture.reads) < MaxReads
    /\ \E ok \in BOOLEAN :
         capture' = [capture EXCEPT
             !.reads = Append(@, [mode |-> "Fallback", ok |-> ok])]
    /\ UNCHANGED <<rvars, hcfg, hres, pair, notify, frame_loop>>

\* cap.release() called whether or not there is a handle
ReleaseUnguarded(s) ==
    IF s.cap = None THEN [s EXCEPT !.error = "AttributeError"]
    ELSE [s EXCEPT !.phase = "released", !.cap = None,
                   !.handle_released = @ + 1]

\* release_resources: if there is a handle it is released and cap set to None
release_resources(s) ==
    IF s.cap = None THEN s
    ELSE [s EXCEPT !.phase = "released", !.cap = None,
                   !.handle_released = @ + 1]

\* a call of release_resources: after the frame loop, after a failure, on a
\* session never opened or on one released before
ReleaseResources ==
    /\ capture.phase \in {"new", "Direct", "Fallback", "failed", "released"}
    /\ capture.error = ""
    /\ capture.calls < MaxReleases
    /\ capture' = [release_resources(capture) EXCEPT !.calls = @ + 1]
    /\ UNCHANGED <<rvars, hcfg, hres, pair, notify, frame_loop>>

CaptureNext ==
    \/ Initialise
    \/ Retry
    \/ GiveUp
    \/ ReadDirect
    \/ SelectQuality
    \/ ReadFallback
    \/ ReleaseResources

SpecCapture == CaptureInit /\ [][CaptureNext]_vars

(***************************************************************************)
(* The end of a turn of the frame loop of process_single_stream: the frame *)
(* is stored in Redis, then the capture interval is set from the time the  *)
(* turn took (lines 425-444).  Durations are in tenths of a second.        *)
(***************************************************************************)
MaxTurns == 3

\* time.time() differences: up to the call of add_to_stream, and of that call
Durations == {0, 4, 9, 10, 23}

\* capture_interval of a session before any frame is processed
InitialIntervals == {1, 15}

\* int(processing_time), processing_time >= 0 in tenths of a second
int_seconds(processing_time) == processing_time \div 10

\* the time rounded to the nearest second instead of cut
NewIntervalRounded(processing_time) == ((processing_time + 5) \div 10) + 5

\* lines 441-443
new_interval(processing_time) == int_seconds(processing_time) + 5

update_capture_interval(s, new) == [s EXCEPT !.capture_interval = new]

\* what add_to_stream did
PushOutcomes == {"stored", "raises"}

\* no try around add_to_stream: its exception ends the frame loop
StoreFrameUncaught(fl, is_windows, push) ==
    IF is_windows THEN fl
    ELSE IF push = "raises" THEN [fl EXCEPT !.state = "ended"]
    ELSE [fl EXCEPT !.stored = @ + 1]

\* lines 425-438: nothing on Windows; an exception of add_to_stream is logged
StoreFrame(fl, is_windows, push) ==
    IF is_windows THEN fl
    ELSE IF push = "raises"
         THEN [fl EXCEPT !.errors = Append(@, "Failed to store frame in Redis")]
    ELSE [fl EXCEPT !.stored = @ + 1]

FrameInit ==
    /\ ReconcilerIdle
    /\ hcfg = <<>>
    /\ hres = <<>>
    /\ pair = <<>>
    /\ notify = <<>>
    /\ \E i \in InitialIntervals :
         capture = [NewSession EXCEPT !.phase = "Direct", !.constructed = 1,
                                      !.cap = <<"VideoCapture", "stream_url">>,
                                      !.capture_interval = i]
    /\ \E is_windows \in BOOLEAN :
         frame_loop = [is_windows |-> is_windows, state |-> "running",
                       turns |-> <<>>, stored |-> 0, errors |-> <<>>]

\* one turn of the loop, from start_time (line 271) to line 444
ProcessFrame ==
    /\ frame_loop.state = "running"
    /\ Len(frame_loop.turns) < MaxTurns
    /\ \E before \in Durations, pushing \in Durations, push \in PushOutcomes :
         LET after == StoreFrame(frame_loop, frame_loop.is_windows, push)
             during == IF frame_loop.is_windows THEN 0 ELSE pushing
             processing_time == before + during
             went_on == after.state = "running"
             turn == [processing_time |-> processing_time,
                      push |-> IF frame_loop.is_windows THEN "none" ELSE push,
                      logged |-> Len(after.errors) - Len(frame_loop.errors),
                      updated |-> went_on,
                      state |-> after.state]
         IN  /\ frame_loop' = [after EXCEPT !.turns = Append(@, turn)]
             /\ capture' = IF went_on
                           THEN update_capture_interval(capture,
                                    new_interval(processing_time))
                           ELSE capture
    /\ UNCHANGED <<rvars, hcfg, hres, pair, notify>>

\* execute_capture yields no more: lines 456-458
EndOfStream ==
    /\ frame_loop.state = "running"
    /\ frame_loop' = [frame_loop EXCEPT !.state = "ended"]
    /\ capture' = release_resources(capture)
    /\ UNCHANGED <<rvars, hcfg, hres, pair, notify>>

FrameNext ==
    \/ ProcessFrame
    \/ EndOfStream

SpecFrame == FrameInit /\ [][FrameNext]_vars

(***************************************************************************)
(* A turn of the frame loop of process_single_stream, whole (lines         *)
(* 270-444): what is called, in the order of the calls.                    *)
(***************************************************************************)
\* maxlen of add_to_stream
StreamMaxLen == 10

\* config.get('site') of process_streams
Sites == {Str("siteA"), None}

\* time.time() differences of a turn, in tenths of a second
TurnTimes == {4, 23}

\* f"{site}_{stream_name}" (line 430)
WorkerKey(site, stream_name) == Format(site) \o "_" \o Format(stream_name)

\* generate_detections (line 277)
Detected == <<"detect">>

\* detect_danger (line 280)
Analysed == <<"analyse">>

\* add_to_stream(key, {'frame': frame_bytes}, maxlen=10) and how it ended
Pushed(key, maxlen, push) == <<"push", key, maxlen, push>>

\* update_capture_interval(new_interval)
Reported(new) == <<"report", new>>

\* the continue of lines 318 and 361 taken for the frame, not for the item
TurnEventsSkipping(log, is_windows, key, push, new) ==
    IF \E i \in 1..Len(log) : log[i][1] \in {"skip", "quiet"}
    THEN <<Detected, Analysed>> \o log
    ELSE <<Detected, Analysed>> \o log
         \o (IF is_windows THEN <<>> ELSE <<Pushed(key, StreamMaxLen, push)>>)
         \o <<Reported(new)>>

\* the calls of a turn: log is what the loop over notifications did
TurnEvents(log, is_windows, key, push, new) ==
    <<Detected, Analysed>> \o log
    \o (IF is_windows THEN <<>> ELSE <<Pushed(key, StreamMaxLen, push)>>)
    \o <<Reported(new)>>

LoopInit ==
    /\ ReconcilerIdle
    /\ hcfg = <<>>
    /\ hres = <<>>
    /\ pair = <<>>
    /\ capture = [NewSession EXCEPT !.phase = "Direct", !.constructed = 1,
                                    !.cap = <<"VideoCapture", "stream_url">>]
    /\ \E start \in StartTimes, n \in NotificationsPool :
         notify = [clock |-> start, notifications |-> n,
                   last |-> int(start) - Seconds(Cooldown)]
    /\ \E is_windows \in BOOLEAN, site \in Sites :
         frame_loop = [is_windows |-> is_windows, state |-> "running",
                       key |-> WorkerKey(site, DefaultStreamName),
                       turn |-> 0, events |-> <<>>, stored |-> 0, errors |-> <<>>]

\* one turn of the loop (lines 270-444)
Turn ==
    /\ frame_loop.state = "running"
    /\ frame_loop.turn < MaxFrames
    /\ \E delta \in Deltas, warnings \in WarningLists, push \in PushOutcomes,
          processing_time \in TurnTimes :
         LET items == Channels(notify.notifications)
             tokens == {items[i][1] : i \in 1..Len(items)}
         IN  \E status \in [tokens -> Statuses] :
               LET t == notify.clock + delta
                   st == VisitAll([last |-> notify.last, log |-> <<>>], items, t,
                                  warnings, status)
                   after == StoreFrame(frame_loop, frame_loop.is_windows, push)
                   new == new_interval(processing_time)
               IN  /\ notify' = [notify EXCEPT !.clock = t, !.last = st.last]
                   /\ frame_loop' = [after EXCEPT
                          !.turn = @ + 1,
                          !.events = TurnEvents(st.log, frame_loop.is_windows,
                                                frame_loop.key, push, new)]
                   /\ capture' = update_capture_interval(capture, new)
    /\ UNCHANGED <<rvars, hcfg, hres, pair>>

LoopNext == Turn

SpecLoop == LoopInit /\ [][LoopNext]_vars

(***************************************************************************)
(* The two notification schemas.  A record of the old schema has           *)
(* line_token and language and no mapping under 'notifications' (the key   *)
(* absent, or None); process_streams makes the mapping of it in the        *)
(* worker.  The same files are given in both schemas to two reconcilers    *)
(* that start alike.                                                       *)
(***************************************************************************)
MaxCalls == 3

Tokens == {"tokenA", "tokenB"}

Languages == {"en", "zh"}

\* how a record of the old schema has no mapping
NoMapping == {Missing, None}

OldSchema(u, line_token, language, notifications) ==
    [Base(u) EXCEPT !.notifications = notifications,
                    !.line_token = Str(line_token), !.language = Str(language)]

NewSchema(u, line_token, language) ==
    [Base(u) EXCEPT !.notifications = Dict(<< <<line_token, language>> >>)]

\* lines 470-486: the notifications a worker works with
notifications_of(config) ==
    IF config.notifications # Missing /\ config.notifications # None
    THEN config.notifications
    ELSE IF config.line_token # Missing /\ config.language # Missing
    THEN IF config.line_token # None /\ config.language # None
         THEN Dict(<< <<config.line_token[2], config.language[2]>> >>)
         ELSE None
    ELSE None

\* what a file says of one video_url: nothing, or a token and a language
Entries ==
    {<<>>} \cup { <<[line_token |-> t, language |-> l, notifications |-> n]>> :
                    t \in Tokens, l \in Languages, n \in NoMapping }

OldFile(e) ==
    [i \in 1..Len(e) |-> OldSchema(U1, e[i].line_token, e[i].language,
                                   e[i].notifications)]

NewFile(e) ==
    [i \in 1..Len(e) |-> NewSchema(U1, e[i].line_token, e[i].language)]

SchemaInit ==
    /\ ReconcilerIdle
    /\ task = [t \in Tasks |-> IdleTask]
    /\ hcfg = <<>>
    /\ hres = <<>>
    /\ notify = <<>>
    /\ capture = <<>>
    /\ frame_loop = <<>>
    /\ pair = [new |-> [rp |-> <<>>, hashes |-> <<>>, procs |-> <<>>,
                        redis |-> {}, ok |-> TRUE],
               old_ok |-> TRUE, calls |-> 0]

\* a call of reload_configurations on a file in the old schema; beside it a
\* call on the same file in the new schema by the other reconciler
ReloadSchemas ==
    /\ pair.calls < MaxCalls
    /\ \E e \in Entries :
        LET old == reload_configurations(Machine, OldFile(e), now)
            new == reload_configurations([pair.new EXCEPT !.ok = TRUE],
                                         NewFile(e), now)
        IN  /\ Len(old.procs) <= MaxProcs
            /\ Len(new.procs) <= MaxProcs
            /\ running_processes' = old.rp
            /\ current_config_hashes' = old.hashes
            /\ procs' = old.procs
            /\ redis' = old.redis
            /\ pair' = [new |-> new, old_ok |-> old.ok, calls |-> pair.calls + 1]
    /\ UNCHANGED <<lock, now, task, hcfg, hres, notify, capture, frame_loop>>

SchemaNext ==
    \/ ReloadSchemas
    \/ \E p \in Pids : WorkerPushes(p)

SpecSchema == SchemaInit /\ [][SchemaNext]_vars

(***************************************************************************)
(* Claims                                                                  *)
(***************************************************************************)
\* the items of a dict as a mapping: their order forgotten
AsMapping(v) == IF v[1] = "dict" THEN {v[2][i] : i \in 1..Len(v[2])} ELSE {}

SameMapping(v, w) ==
    /\ v[1] = w[1]
    /\ IF v[1] = "dict" THEN AsMapping(v) = AsMapping(w) /\ Len(v[2]) = Len(w[2])
       ELSE v = w

AgreeButNotifications(a, b) ==
    /\ a.video_url = b.video_url
    /\ a.model_key = b.model_key
    /\ a.site = b.site
    /\ Get(a.stream_name, DefaultStreamName) = Get(b.stream_name, DefaultStreamName)
    /\ a.detect_with_server = b.detect_with_server

Urls == {U1, U2}

\* the video_urls of the records of a file that are not expired
DesiredUrls(configurations, clock) ==
    {configurations[i].video_url : i \in
        {j \in 1..Len(configurations) : ~is_expired(configurations[j], clock)}}

\* the keys of the records of a file that are not expired
SurvivingKeys(configurations, clock) ==
    {DerivedKey(configurations[i]) : i \in
        {j \in 1..Len(configurations) : ~is_expired(configurations[j], clock)}}

KeySet(d) == {d[i].k : i \in 1..Len(d)}

InLog(t, e) == \E i \in 1..Len(task[t].log) : task[t].log[i] = e

\* the workers of a video_url that were started and have not ended
ActiveWorkers(url) ==
    {p \in DOMAIN procs : procs[p].config.video_url = url /\ procs[p].st # "dead"}

\* C1: at any time a video_url has at most one worker that was started and has
\* not ended, and while a worker of a video_url is being stopped (SIGTERM sent,
\* the join pending) no other worker of that video_url is running.
C1_OneWorkerPerUrl ==
    /\ \A url \in Urls : Cardinality(ActiveWorkers(url)) <= 1
    /\ \A t \in Tasks :
         task[t].pc = "join" =>
            LET url == Head(task[t].todo)
            IN  ActiveWorkers(url) \subseteq {Lookup(running_processes, url).process}

\* C1 witness: a worker was restarted on a change of its record (the old one
\* has ended, the new one runs) while another call waits for the lock.
C1_Witness ==
    /\ \E p, q \in DOMAIN procs :
         /\ p < q
         /\ procs[p].config.video_url = procs[q].config.video_url
         /\ procs[p].config # procs[q].config
         /\ procs[p].st = "dead" /\ procs[p].term
         /\ procs[q].st = "alive"
    /\ \E t \in Tasks : task[t].pc = "lock"

\* a call is inside the body of async with self.lock
InPass(t) == task[t].pc \in {"loop1", "join", "delete", "loop2", "exit", "raise"}

\* C3: at most one call of reload_configurations is inside the locked body,
\* where running_processes and current_config_hashes are read and written;
\* every other call in flight is before it or has ended.
C3_PassesExclusive ==
    \A t, u \in Tasks : InPass(t) /\ InPass(u) => t = u

\* C3 witness: a call is suspended in the await of a key deletion while
\* another, which has read the file, waits for the lock.
C3_Witness ==
    \E t, u \in Tasks : task[t].pc = "delete" /\ task[u].pc = "lock"

\* a call has gone through its body at one value of the clock and returns
ReturnsAt(t) == task[t].pc = "exit" /\ task[t].at = now

\* C2 as stated: when a call returns, the video_urls of running_processes are
\* those of the unexpired records of its file, each with the fingerprint of
\* its record, and the recorded config is that record.
C2_ActualIsDesired ==
    \A t \in Tasks :
        ReturnsAt(t) =>
            LET cc == current_configs(task[t].configurations)
                want == DesiredUrls(task[t].configurations, now)
            IN  /\ KeySet(running_processes) = want
                /\ KeySet(current_config_hashes) = want
                /\ \A u \in want :
                     /\ Lookup(current_config_hashes, u)
                          = compute_config_hash(Lookup(cc, u))
                     /\ Lookup(running_processes, u).config = Lookup(cc, u)

\* C2 amended: when a call returns, the video_urls of running_processes are
\* those of the unexpired records of its file, each with the fingerprint of
\* its record, and the recorded config is the one its worker was started on:
\* it has the fingerprint of the record, and may differ from it elsewhere.
C2_ActualIsDesiredUpToFingerprint ==
    \A t \in Tasks :
        ReturnsAt(t) =>
            LET cc == current_configs(task[t].configurations)
                want == DesiredUrls(task[t].configurations, now)
            IN  /\ KeySet(running_processes) = want
                /\ KeySet(current_config_hashes) = want
                /\ \A u \in want :
                     /\ Lookup(current_config_hashes, u)
                          = compute_config_hash(Lookup(cc, u))
                     /\ compute_config_hash(Lookup(running_processes, u).config)
                          = compute_config_hash(Lookup(cc, u))

\* C2 witness: a call returns that has started a worker and has kept a
\* worker whose record changed in expire_date only.
C2_Witness ==
    \E t \in Tasks :
        /\ ReturnsAt(t)
        /\ \E i \in 1..Len(task[t].log) : task[t].log[i][1] = "start"
        /\ \E u \in DesiredUrls(task[t].configurations, now) :
             Lookup(running_processes, u).config
               # Lookup(current_configs(task[t].configurations), u)

\* a record of the file is reconciled: its video_url has a worker exactly if
\* the record is not expired, recorded with the fingerprint of the record
Reconciled(config) ==
    /\ Has(running_processes, config.video_url) <=> ~is_expired(config, now)
    /\ Has(current_config_hashes, config.video_url) <=> ~is_expired(config, now)
    /\ ~is_expired(config, now) =>
         Lookup(current_config_hashes, config.video_url) = compute_config_hash(config)

\* C4: when a step of a call raises on one video_url (here the deletion of a
\* key), the call has still dealt with every other video_url: when it ends,
\* each other running worker has a record in the file and each other
\* well-formed record of the file is reconciled.
C4_FailureIsolated ==
    \A t \in Tasks :
        (task[t].pc = "raise" /\ task[t].error = "RedisError" /\ task[t].at = now) =>
            LET failing == Head(task[t].todo)
                cc == current_configs(task[t].configurations)
            IN  /\ \A u \in KeySet(running_processes) \ {failing} : Has(cc, u)
                /\ \A u \in KeySet(cc) \ {failing} :
                     ~HashRaises(Lookup(cc, u)) => Reconciled(Lookup(cc, u))

\* C5: a record that lacks a field the fingerprint needs is skipped and the
\* well-formed records of the same file are reconciled all the same: when the
\* call ends, by returning or by the KeyError, each of them is reconciled.
C5_MalformedSkipped ==
    \A t \in Tasks :
        ((task[t].pc = "exit" \/ (task[t].pc = "raise" /\ task[t].error = "KeyError"))
           /\ task[t].at = now) =>
            LET cc == current_configs(task[t].configurations)
            IN  \A u \in KeySet(cc) :
                    ~HashRaises(Lookup(cc, u)) => Reconciled(Lookup(cc, u))

\* C6: a stop always completes: whenever a call is in stop_process, past
\* process.terminate(), either the join can return or something is still to
\* happen that lets it return (the worker ending on SIGTERM, a forced kill).
C6_StopCompletes ==
    \A t \in Tasks :
        task[t].pc = "join" =>
            LET pid == Lookup(running_processes, Head(task[t].todo)).process
            IN  Joined(procs, pid) \/ ENABLED WorkerTerminated(pid)

\* C7: from any state, a call on a file and a call on the same file with one
\* more record, expired and of a video_url the file does not have, end with
\* the same running_processes and the same current_config_hashes.
C7_ExpiredRecordChangesNothing ==
    pair # <<>> => pair.with = pair.without

\* C7, for the added records that have a 'site': the two calls end the same.
C7_ExpiredRecordWithSiteChangesNothing ==
    (pair # <<>> /\ ~KeyRaises(pair.extra)) => pair.with = pair.without

\* C7 witness: the calls were run from a state where the video_url of the
\* added record had a worker, and they leave another worker running.
C7_Witness ==
    /\ pair # <<>>
    /\ Has(pair.before, pair.extra.video_url)
    /\ pair.with.rp # <<>>

\* C9: a call that stops a worker because its record is no longer in the file
\* does not delete the worker's key if a record of the file that is not
\* expired has that key.
C9_SharedKeyKept ==
    \A t \in Tasks : \A i \in 1..Len(task[t].log) :
        LET e == task[t].log[i]
        IN  (/\ e[1] = "stop"
             /\ ~Has(current_configs(task[t].configurations), e[2])
             /\ e[3] \in SurvivingKeys(task[t].configurations, now))
            => /\ ~InLog(t, Delete(e[3]))
               /\ ~(task[t].pc = "delete" /\ task[t].key = e[3])

\* C9 witness: a call returns that has stopped the worker of a removed record
\* whose key is the key of a record still in the file, with frames under it.
C9_Witness ==
    \E t \in Tasks :
        /\ task[t].pc = "exit"
        /\ \E i \in 1..Len(task[t].log) :
             LET e == task[t].log[i]
             IN  /\ e[1] = "stop"
                 /\ ~Has(current_configs(task[t].configurations), e[2])
                 /\ e[3] \in SurvivingKeys(task[t].configurations, now)
                 /\ e[3] \in redis

\* C10: a call that has stopped a worker whose key no unexpired record of the
\* file has, has deleted that key by the time it returns.
C10_OrphanKeyDeleted ==
    \A t \in Tasks :
        ReturnsAt(t) =>
            \A i \in 1..Len(task[t].log) :
                LET e == task[t].log[i]
                IN  (/\ e[1] = "stop"
                     /\ e[3] \notin SurvivingKeys(task[t].configurations, now))
                    => InLog(t, Delete(e[3]))

\* C8 as stated: the fingerprints of two configs are equal if and only if the
\* configs agree on video_url, model_key, site, stream_name (absent counting
\* as 'prediction_visual'), the notifications mapping and detect_with_server.
C8_FingerprintIffFieldsAgree ==
    ((hres[1] = hres[2]) <=>
            (/\ AgreeButNotifications(hcfg[1], hcfg[2])
             /\ SameMapping(hcfg[1].notifications, hcfg[2].notifications)))

\* C8 amended: the fingerprints of two configs are equal if and only if the
\* configs agree on the six fields, the notifications compared with the order
\* of their items; expire_date never matters.
C8_FingerprintIffFieldsAgreeInOrder ==
    ((hres[1] = hres[2]) <=>
            (/\ AgreeButNotifications(hcfg[1], hcfg[2])
             /\ hcfg[1].notifications = hcfg[2].notifications))

\* C8 witness: two configs that differ in expire_date and in how the default
\* stream_name is written have been given the same fingerprint.
C8_Witness ==
    /\ hres[1] = hres[2]
    /\ hcfg[1].expire_date # hcfg[2].expire_date
    /\ hcfg[1].stream_name = Missing
    /\ hcfg[2].stream_name = DefaultStreamName

\* C11: keys are deleted by reload_configurations alone: a key leaves Redis
\* only in the step in which a call's await of redis_manager.delete returns,
\* never in a step of a worker, the end of its frame loop included.
C11_OnlyReconcilerDeletes ==
    [][\A k \in redis :
          k \notin redis' =>
             \E t \in Tasks : /\ task[t].pc = "delete"
                              /\ task[t].key = k
                              /\ task'[t].pc # "delete"]_vars

\* C11 seen in a state: a worker is ended that was never sent SIGTERM, so
\* that its finally clause has run, and another worker with the same key lives.
C11_Witness ==
    \E p, q \in DOMAIN procs :
        /\ p # q
        /\ procs[p].st = "dead" /\ ~procs[p].term
        /\ procs[q].st = "alive"
        /\ DerivedKey(procs[p].config) = DerivedKey(procs[q].config)
        /\ \E u \in KeySet(running_processes) :
             Lookup(running_processes, u).process = q

\* the frames processed so far, and what was done for them
FrameIds == 1..Len(notify.frames)

IsSkip(e) == e[1] = "skip"

IsSuccess(e) == e[1] = "send" /\ e[4] = 200

IsFailure(e) == e[1] = "send" /\ e[4] # 200

HasSuccess(f) == \E i \in 1..Len(f.log) : IsSuccess(f.log[i])

\* C12: when the last successful send of the stream was at T, a frame at t
\* with t - T < 300 s has nothing sent, translated or composed for any
\* channel, and a frame with t - T >= 300 s is eligible.
C12_CooldownFromLastSend ==
    \A j \in FrameIds : \A i \in 1..(j - 1) :
        LET f == notify.frames[j]
            T == notify.frames[i].t
        IN  (/\ HasSuccess(notify.frames[i])
             /\ \A k \in (i + 1)..(j - 1) : ~HasSuccess(notify.frames[k]))
            => /\ f.t - T < 300 * Scale =>
                    \A e \in 1..Len(f.log) : IsSkip(f.log[e])
               /\ f.t - T >= 300 * Scale =>
                    \A e \in 1..Len(f.log) : e = 1 => ~IsSkip(f.log[e])

\* C12 seen in a state: two frames of one worker with a send at the first,
\* 100 s apart with the second suppressed, or 301 s apart with a second send.
C12_Witness ==
    /\ Len(notify.frames) = 2
    /\ notify.frames[1].worker = notify.frames[2].worker
    /\ HasSuccess(notify.frames[1])
    /\ notify.frames[2].t - notify.frames[1].t = 301 * Scale
    /\ HasSuccess(notify.frames[2])

C14_FailedSendChangesNothing ==
    \A j \in FrameIds :
        LET f == notify.frames[j]
        IN  /\ ~HasSuccess(f) => f.after = f.before
            /\ Len(f.log) = Len(f.items)
            /\ \A i, k \in 1..Len(f.log) : f.log[i][2] = f.log[k][2] => i = k
            /\ \A i \in 1..(Len(f.log) - 1) :
                 IsFailure(f.log[i]) => ~IsSkip(f.log[i + 1])
            /\ (/\ j < Len(notify.frames)
                /\ notify.frames[j + 1].worker = f.worker
                /\ ~HasSuccess(f)
                /\ \E i \in 1..Len(f.log) : IsFailure(f.log[i]))
               => ~IsSkip(notify.frames[j + 1].log[1])

\* C14 witness: the send to the first channel fails and the send to the
\* second succeeds, and the frame after, 100 s later, follows a frame whose
\* only send failed with a successful send.
C14_Witness ==
    /\ Len(notify.frames) = 2
    /\ notify.frames[1].worker = notify.frames[2].worker
    /\ notify.frames[2].t - notify.frames[1].t = 100 * Scale
    /\ Len(notify.frames[1].log) = 1 /\ IsFailure(notify.frames[1].log[1])
    /\ Len(notify.frames[2].log) = 1 /\ IsSuccess(notify.frames[2].log[1])

\* C15: any two successful sends for one key (the workers here share it) are
\* at least 300 s apart.
C15_SendsApart ==
    \A i, j \in 1..Len(notify.sent) :
        i < j => notify.sent[j] - notify.sent[i] >= 300 * Scale

\* C15 seen in a state: a worker has sent, was restarted, and has sent again.
C15_Witness ==
    /\ Len(notify.sent) = 2
    /\ Len(notify.frames) = 2
    /\ notify.frames[1].worker = notify.frames[2].worker
    /\ notify.frames[2].before # notify.frames[1].after

\* the first warning of a list that has 'controlled area' in it
FirstZoneWarning(warnings) ==
    warnings[CHOOSE i \in 1..Len(warnings) :
                /\ Contains(warnings[i], "controlled area")
                /\ \A k \in 1..(i - 1) : ~Contains(warnings[k], "controlled area")]

\* C16: outside cooldown, with h the hour of the frame: a zone warning and
\* h < 7 or h >= 18 give a message of that one warning; else a warning and
\* 7 <= h < 18 give a message of all the warnings; else there is no message,
\* nothing is sent and last_notification_time stays.
C16_MessageByHour ==
    \A j \in FrameIds :
        LET f == notify.frames[j]
            h == current_hour(f.t)
            zone == \E i \in 1..Len(f.warnings) :
                        Contains(f.warnings[i], "controlled area")
        IN  \A i \in 1..Len(f.log) :
                LET e == f.log[i]
                    language == f.items[i][2]
                IN  ~IsSkip(e) =>
                      IF zone /\ (h < 7 \/ h >= 18)
                      THEN /\ e[1] = "send"
                           /\ e[3].body = <<<<FirstZoneWarning(f.warnings), language>>>>
                      ELSE IF f.warnings # <<>> /\ 7 <= h /\ h < 18
                      THEN /\ e[1] = "send"
                           /\ Len(e[3].body) = Len(f.warnings)
                           /\ \A k \in 1..Len(f.warnings) :
                                e[3].body[k] = <<f.warnings[k], language>>
                      ELSE /\ e[1] = "quiet"
                           /\ f.after = f.before

\* C16 witness: at 18 h, a frame with three warnings of which two are zone
\* warnings has a message of the first zone warning alone; and at 7 h a frame
\* has a message of its three warnings.
C16_Witness ==
    /\ Len(notify.frames) = 2
    /\ LET f == notify.frames[1]
           g == notify.frames[2]
       IN  /\ current_hour(f.t) = 6 /\ current_hour(g.t) = 7
           /\ Len(f.warnings) = 3 /\ Len(g.warnings) = 3
           /\ Len(f.log) > 0 /\ f.log[1][1] = "send" /\ Len(f.log[1][3].body) = 1
           /\ Len(g.log) > 0 /\ g.log[1][1] = "send" /\ Len(g.log[1][3].body) = 3

\* the number of failed reads in a row that end with the k-th read
RECURSIVE FailedInARow(_, _)
FailedInARow(reads, k) ==
    IF k = 0 \/ reads[k].ok THEN 0 ELSE 1 + FailedInARow(reads, k - 1)

\* the reads a session made in Direct mode
DirectReads == {i \in DOMAIN capture.reads : capture.reads[i].mode = "Direct"}

\* C17: a session in Direct mode counts the failed reads in a row, a
\* successful read setting the count back to zero; the session is in
\* Fallback mode exactly when its last five Direct reads failed, no Direct
\* read follows five failures in a row, and every read after a read in
\* Fallback mode is in Fallback mode too.
C17_FallbackIsPermanent ==
    LET reads == capture.reads
        n == Cardinality(DirectReads)
    IN  capture # <<>> =>
          /\ DirectReads = 1..n
          /\ \A i \in DOMAIN reads : i > n => capture.mode = "Fallback"
          /\ \A k \in 0..(n - 1) : FailedInARow(reads, k) < FailureThreshold
          /\ capture.mode = "Direct" =>
               /\ capture.fail_count = FailedInARow(reads, n)
               /\ capture.fail_count < FailureThreshold
          /\ capture.mode = "Fallback" <=>
               FailedInARow(reads, n) = FailureThreshold

\* a failure, a successful read, five failures, then a frame read from the
\* variant selected in Fallback mode
C17_Witness ==
    /\ capture # <<>>
    /\ capture.phase = "Fallback"
    /\ \E i \in DirectReads : i > 1 /\ capture.reads[i].ok /\ ~capture.reads[i - 1].ok
    /\ \E i \in DOMAIN capture.reads :
         capture.reads[i].mode = "Fallback" /\ capture.reads[i].ok

\* the place of a variant on the ladder, 1 for the best
Rank(q) == CHOOSE i \in 1..Len(Ladder) : Ladder[i] = q

\* the place on the ladder of the cap for a download speed in Mbps
CapRank(mbps) == IF mbps >= 10 THEN 1 ELSE IF mbps >= 5 THEN 3 ELSE 4

\* the advertised variants of the ladder at or below the cap
AtOrBelowCap(mbps, advertised) ==
    {q \in advertised : /\ \E i \in 1..Len(Ladder) : Ladder[i] = q
                        /\ Rank(q) >= CapRank(mbps)}

\* C18: for every download speed and every set of advertised variants the
\* variant selected is the highest of the ladder best > 1080p > 720p > 480p >
\* 360p > 240p among the advertised ones at or below the cap (best from
\* 10 Mbps, 720p from 5 Mbps to below 10, 480p below 5), and nothing is
\* selected when no advertised variant is at or below the cap; 20 Mbps with
\* {best, 1080p, 720p, 480p} gives best, 7 Mbps with {720p, 480p, 360p} gives
\* 720p, 3 Mbps with {480p, 360p, 240p} gives 480p, 20 Mbps with {} nothing.
C18_HighestAtOrBelowCap ==
    (capture # <<>> /\ capture.mode = "Fallback" /\ capture.phase # "select") =>
      LET mbps == capture.download_speed
          advertised == capture.advertised
          selected == capture.selected
          eligible == AtOrBelowCap(mbps, advertised)
      IN  /\ eligible = {} => selected = NoQuality
          /\ eligible # {} =>
               /\ selected \in eligible
               /\ \A q \in eligible : Rank(selected) <= Rank(q)
          /\ (mbps = 20 /\ advertised = {"best", "1080p", "720p", "480p"})
               => selected = "best"
          /\ (mbps = 7 /\ advertised = {"720p", "480p", "360p"})
               => selected = "720p"
          /\ (mbps = 3 /\ advertised = {"480p", "360p", "240p"})
               => selected = "480p"
          /\ (mbps = 20 /\ advertised = {}) => selected = NoQuality

\* at 5 Mbps a source that advertises best and 1080p too is read at 720p
C18_Witness ==
    /\ capture # <<>>
    /\ capture.phase = "Fallback"
    /\ capture.download_speed = 5
    /\ {"best", "1080p", "720p", "480p"} \subseteq capture.advertised
    /\ capture.selected = "720p"

\* the worker recorded for a video_url has ended by itself: its frame loop
\* is over (line 270) and nothing had sent it SIGTERM
EndedByItself(url) ==
    /\ Has(running_processes, url)
    /\ procs[Lookup(running_processes, url).process].st = "dead"
    /\ ~procs[Lookup(running_processes, url).process].term

\* C19: once the frame loop of a worker has ended on a fatal failure of its
\* capture session, the Reconciler does not count that video_url as having
\* a running worker: a pass that comes to the video_url does not keep its
\* entry of running_processes as it is.
C19_EndedWorkerNotReported ==
    [][\A t \in Tasks :
         (/\ task[t].pc = "loop1"
          /\ task[t].todo # <<>>
          /\ EndedByItself(Head(task[t].todo))
          /\ task'[t] # task[t])
         => ~(/\ task'[t].pc = "loop1"
              /\ task'[t].todo = Tail(task[t].todo)
              /\ running_processes' = running_processes)]_vars

\* a pass has gone through both loops and done nothing, while the worker
\* recorded for a video_url of the file has ended by itself
C19_Witness ==
    \E t \in Tasks :
        /\ task[t].pc = "exit"
        /\ task[t].log = <<>>
        /\ \E i \in 1..Len(running_processes) :
             EndedByItself(running_processes[i].k)

\* C20: every failed attempt to open is followed by a wait of exactly 5
\* seconds and one more attempt on the same handle: a session that opened
\* after k failures has made k waits and k re-opens on the one handle it
\* constructed and holds that handle; when the retry budget is used up
\* with no success the initialisation has failed and holds no handle, and
\* no attempt is made beyond the budget.
C20_RetryUntilOpenOrBudget ==
    capture # <<>> =>
      LET k == capture.failed_opens
          opened == capture.phase \in {"Direct", "select", "Fallback"}
          budget_used_up == capture.phase = "failed" /\ capture.mode = "Direct"
      IN  /\ capture.constructed <= 1
          /\ Len(capture.sleeps) = capture.opens
          /\ \A i \in DOMAIN capture.sleeps : capture.sleeps[i] = 5
          /\ capture.opens <= RetryBudget
          /\ capture.phase = "opening" => capture.opens = k - 1
          /\ opened => /\ capture.opens = k
                       /\ Len(capture.sleeps) = k
                       /\ capture.cap # None
          /\ budget_used_up => /\ k = RetryBudget + 1
                               /\ capture.opens = RetryBudget
                               /\ capture.cap = None
                               /\ capture.reads = <<>>

\* the stream opened at the second retry and a frame has been read from it
C20_Witness ==
    /\ capture # <<>>
    /\ capture.phase = "Direct"
    /\ capture.failed_opens = 2
    /\ capture.sleeps = <<5, 5>>
    /\ capture.cap # None
    /\ \E i \in DOMAIN capture.reads : capture.reads[i].ok

\* C21: a call of release_resources leaves the session with no handle and
\* raises nothing; on a session that holds a handle it releases that handle
\* once; on a session with no handle (released before, or never opened) it
\* changes nothing.
C21_ReleaseIdempotent ==
    [][(capture # <<>> /\ capture' # <<>> /\ capture'.calls = capture.calls + 1) =>
         /\ capture'.cap = None
         /\ capture'.error = ""
         /\ capture.cap # None =>
              capture'.handle_released = capture.handle_released + 1
         /\ capture.cap = None =>
              capture' = [capture EXCEPT !.calls = @ + 1]]_vars

\* a session that read a frame has been released twice: its handle was
\* released once
C21_Witness ==
    /\ capture # <<>>
    /\ capture.calls = 2
    /\ capture.handle_released = 1
    /\ capture.phase = "released"
    /\ capture.cap = None
    /\ capture.reads # <<>>

\* C22: after every turn of the frame loop the capture interval is the
\* whole seconds of the time the turn took, from its start to the end of
\* the push of the frame, plus 5 (2.7 s gives 7): the interval is exactly
\* the value handed to update_capture_interval, at least 5 once a frame has
\* been processed and at least 1 before.
C22_IntervalFromLatency ==
    frame_loop # <<>> =>
      LET n == Len(frame_loop.turns)
      IN  /\ capture.capture_interval >= 1
          /\ n > 0 =>
               LET latency == frame_loop.turns[n].processing_time
               IN  /\ capture.capture_interval >= 5
                   /\ (capture.capture_interval - 5) * 10 <= latency
                   /\ latency < (capture.capture_interval - 4) * 10
                   /\ latency = 27 => capture.capture_interval = 7

\* a turn that took 2.7 s has set the interval to 7
C22_Witness ==
    /\ frame_loop # <<>>
    /\ frame_loop.turns # <<>>
    /\ frame_loop.turns[Len(frame_loop.turns)].processing_time = 27
    /\ capture.capture_interval = 7

\* C24: a turn of the frame loop in which add_to_stream raised has logged
\* the failure once, has gone on to set the capture interval from the time
\* the turn took, and has left the worker running: the loop is ready for
\* the next frame.
C24_StoreFailureGoesOn ==
    frame_loop # <<>> =>
      LET n == Len(frame_loop.turns)
      IN  /\ \A i \in 1..n :
               frame_loop.turns[i].push = "raises" =>
                 /\ frame_loop.turns[i].logged = 1
                 /\ frame_loop.turns[i].updated
                 /\ frame_loop.turns[i].state = "running"
          /\ (n > 0 /\ frame_loop.turns[n].push = "raises") =>
               capture.capture_interval =
                   (frame_loop.turns[n].processing_time \div 10) + 5
          /\ Len(frame_loop.errors) =
               Cardinality({i \in 1..n : frame_loop.turns[i].push = "raises"})

\* the frame of the first turn was not stored, the frame of the second was
C24_Witness ==
    /\ frame_loop # <<>>
    /\ Len(frame_loop.turns) = 2
    /\ frame_loop.turns[1].push = "raises"
    /\ frame_loop.turns[2].push = "stored"
    /\ frame_loop.stored = 1
    /\ frame_loop.state = "running"

\* the workers of a reconciler: the notifications each works with, and
\* whether it has been stopped
WorkersOf(ps) ==
    [p \in DOMAIN ps |-> [notifications |-> notifications_of(ps[p].config),
                          st |-> ps[p].st]]

\* C23: a file whose records have line_token and language and no mapping is
\* reconciled without error and like the file whose records have the
\* mapping {line_token: language}: the same video_urls are recorded and
\* fingerprinted, and the same workers have been started and stopped, each
\* working with the same notifications.
C23_OldSchemaLikeNew ==
    (pair # <<>> /\ pair.calls > 0) =>
      /\ pair.old_ok
      /\ Keys(running_processes) = Keys(pair.new.rp)
      /\ Keys(current_config_hashes) = Keys(pair.new.hashes)
      /\ WorkersOf(procs) = WorkersOf(pair.new.procs)

\* no call has raised, and the token of a record with 'notifications: None'
\* was changed: the worker of the old schema still works with the old token
C23_Witness ==
    /\ pair # <<>>
    /\ pair.calls = 2
    /\ pair.old_ok
    /\ Len(procs) = 1
    /\ procs[1].st = "alive"
    /\ Len(pair.new.procs) = 2
    /\ notifications_of(procs[1].config)
         # notifications_of(pair.new.procs[2].config)

\* the places of the log of a call where a worker is started for a video_url
\* that the call has stopped before: the restarts it has done
Restarts(t) ==
    {j \in 1..Len(task[t].log) :
        /\ task[t].log[j][1] = "start"
        /\ \E i \in 1..(j - 1) : /\ task[t].log[i][1] = "stop"
                                 /\ task[t].log[i][2] = task[t].log[j][2]}

\* C25: a restart is done in this order: the old worker is stopped and has
\* ended; its key, computed from the config it was started on, is deleted
\* if and only if no record of the file has that key; then the new worker
\* is started from the record of the file, and that record and its
\* fingerprint are recorded.  Nothing is between these steps, no deletion
\* of the pass comes while a restart has its new worker, and no key of a
\* record of the file is ever deleted by the pass.
C25_RestartOrder ==
    \A t \in Tasks :
      LET log == task[t].log
          configurations == task[t].configurations
      IN  /\ \A j \in Restarts(t) :
                LET url == log[j][2]
                    config == Lookup(current_configs(configurations), url)
                    i == IF log[j - 1][1] = "stop" THEN j - 1 ELSE j - 2
                IN  /\ i >= 1
                    /\ log[i][1] = "stop" /\ log[i][2] = url
                    /\ i = j - 2 => log[j - 1] = Delete(log[i][3])
                    /\ i = j - 1 <=> log[i][3] \in current_keys(configurations)
                    /\ Has(running_processes, url)
                    /\ Lookup(running_processes, url).config = config
                    /\ Has(current_config_hashes, url)
                    /\ Lookup(current_config_hashes, url) = compute_config_hash(config)
                    /\ ActiveWorkers(url) \subseteq {Lookup(running_processes, url).process}
          /\ \A j \in 1..Len(log) :
                log[j][1] = "delete" => log[j][2] \notin current_keys(configurations)
          /\ (task[t].pc \in {"join", "delete"} /\ task[t].branch = "restart") =>
                LET url == Head(task[t].todo)
                IN  /\ log[Len(log)] = Stop(url, DerivedKey(Lookup(running_processes, url).config))
                    /\ task[t].pc = "delete" =>
                         /\ ActiveWorkers(url) = {}
                         /\ task[t].key = DerivedKey(Lookup(running_processes, url).config)
                         /\ task[t].key \notin current_keys(configurations)

\* a call has restarted a worker whose stream_name was changed, deleting
\* the old key in between; the new worker is alive
C25_Witness ==
    \E t \in Tasks : \E j \in Restarts(t) :
        /\ j >= 3
        /\ task[t].log[j - 1][1] = "delete"
        /\ task[t].log[j - 2][1] = "stop"
        /\ ActiveWorkers(task[t].log[j][2]) # {}

\* C26: a record that is expired and whose video_url has no worker changes
\* nothing in what a call does: with it in the file the call starts and
\* stops the same workers and deletes the same keys as without it, and
\* ends with or without an error as it does without it.
C26_ExpiredEntryNoEffect ==
    (pair # <<>> /\ ~Has(pair.before, pair.extra.video_url)) =>
        pair.effects.with = pair.effects.without

\* the added record has a 'site' and neither call raises; without it the key
\* of a stopped worker is deleted, with it the key stays
C26_Witness ==
    /\ pair # <<>>
    /\ ~Has(pair.before, pair.extra.video_url)
    /\ ~KeyRaises(pair.extra)
    /\ pair.effects.with.ok /\ pair.effects.without.ok
    /\ pair.effects.with.procs = pair.effects.without.procs
    /\ DerivedKey(pair.extra) \in pair.effects.with.redis
    /\ DerivedKey(pair.extra) \notin pair.effects.without.redis

\* for the call that holds the lock: the video_url has a worker recorded,
\* a record in the file of the call that is not expired, and the
\* fingerprint of that record is the recorded one
Unchanged(t, url) ==
    LET cc == current_configs(task[t].configurations)
    IN  /\ lock.owner = t
        /\ task[t].pc \in {"loop1", "join", "delete", "loop2", "exit"}
        /\ Has(running_processes, url)
        /\ Has(cc, url)
        /\ ~is_expired(Lookup(cc, url), now)
        /\ ~HashRaises(Lookup(cc, url))
        /\ Has(current_config_hashes, url)
        /\ Lookup(current_config_hashes, url) = compute_config_hash(Lookup(cc, url))

\* C27: no step of a call touches a worker whose video_url has an unexpired
\* record with the recorded fingerprint in the file of the call: its entry
\* of running_processes (handle and config) and its fingerprint stay, it is
\* not sent SIGTERM, and the call neither deletes its key nor is about to.
C27_UnchangedWorkerUntouched ==
    [][\A t \in Tasks : \A i \in 1..Len(running_processes) :
         LET url == running_processes[i].k
             entry == running_processes[i].v
         IN  (Unchanged(t, url) /\ task'[t] # task[t]) =>
               /\ Has(running_processes', url)
               /\ Lookup(running_processes', url) = entry
               /\ Lookup(current_config_hashes', url)
                    = Lookup(current_config_hashes, url)
               /\ procs'[entry.process] = procs[entry.process]
               /\ ~(task'[t].pc = "delete" /\ task'[t].key = DerivedKey(entry.config))
               /\ (task[t].pc = "delete" /\ DerivedKey(entry.config) \in redis)
                    => DerivedKey(entry.config) \in redis']_vars

\* a call has gone through both loops and has started or stopped another
\* worker; the worker of rtsp://one, whose record differs from the recorded
\* config in its expire_date only, is alive and was not sent SIGTERM
C27_Witness ==
    \E t \in Tasks :
        /\ task[t].pc = "exit"
        /\ task[t].log # <<>>
        /\ Unchanged(t, U1)
        /\ Lookup(current_configs(task[t].configurations), U1)
             # Lookup(running_processes, U1).config
        /\ procs[Lookup(running_processes, U1).process].st = "alive"
        /\ ~procs[Lookup(running_processes, U1).process].term
        /\ \A i \in 1..Len(task[t].log) : task[t].log[i][2] # U1

\* C28: a second call on the same file at the same time of the clock, run
\* when a call has ended without error, does nothing: the first loop keeps
\* every worker, the second loop starts none, no worker is started or
\* stopped, no key is deleted, and running_processes and
\* current_config_hashes are as the first call left them.
C28_SecondPassDoesNothing ==
    (pair # <<>> /\ pair.first.ok) =>
        /\ \A i \in 1..Len(pair.decisions) : pair.decisions[i] = "keep"
        /\ pair.launches = {}
        /\ pair.second = pair.first
        /\ ~pair.again.started
        /\ ~pair.again.stopped
        /\ ~pair.again.deleted

\* the first call has started and stopped workers and deleted a key, and a
\* worker is recorded; the second call follows
C28_Witness ==
    /\ pair # <<>>
    /\ pair.first.ok
    /\ pair.first.rp # <<>>
    /\ pair.started
    /\ pair.stopped
    /\ pair.deleted

\* C29: when the second loop of a call comes to a record that is not
\* expired and the worker recorded for its video_url has ended by itself,
\* the call starts a worker for that video_url: after the step the
\* video_url has a worker that has not ended.
C29_EndedWorkerStartedAgain ==
    [][\A t \in Tasks :
         (/\ task[t].pc = "loop2"
          /\ task[t].todo # <<>>
          /\ EndedByItself(Head(task[t].todo))
          /\ ~is_expired(Lookup(current_configs(task[t].configurations),
                                Head(task[t].todo)), now)
          /\ task'[t] # task[t])
         => \E p \in DOMAIN procs' :
                /\ procs'[p].config.video_url = Head(task[t].todo)
                /\ procs'[p].st # "dead"]_vars

\* a call is through both loops and has done nothing; rtsp://one has an
\* unexpired record in its file with the recorded fingerprint, its worker
\* has ended by itself and it has no other worker
C29_Witness ==
    \E t \in Tasks :
        /\ task[t].pc = "exit"
        /\ task[t].log = <<>>
        /\ Unchanged(t, U1)
        /\ EndedByItself(U1)
        /\ ActiveWorkers(U1) = {}

\* no call of reload_configurations is between its first and its last line
NoPassInProgress ==
    /\ lock.owner = 0
    /\ \A t \in Tasks : task[t].pc \in {"idle", "done", "failed"}

\* C30: whenever no call is in progress, also after a call that ended with
\* an error, running_processes and current_config_hashes have the same
\* video_urls, and the fingerprint stored for a video_url is the
\* fingerprint of the config recorded for it.
C30_MapsAgree ==
    NoPassInProgress =>
      /\ KeySet(running_processes) = KeySet(current_config_hashes)
      /\ \A i \in 1..Len(running_processes) :
           LET url == running_processes[i].k
               config == running_processes[i].v.config
           IN  /\ ~HashRaises(config)
               /\ Lookup(current_config_hashes, url) = compute_config_hash(config)

\* a call has ended with an error and none is in progress: a worker is
\* alive and recorded for a video_url that has no fingerprint
C30_Witness ==
    /\ NoPassInProgress
    /\ \E t \in Tasks : task[t].pc = "failed"
    /\ \E i \in 1..Len(running_processes) :
         /\ ~Has(current_config_hashes, running_processes[i].k)
         /\ procs[running_processes[i].v.process].st = "alive"

\* the call t enters the body of reload_configurations in this step
Enters(t) ==
    /\ task[t].pc = "lock"
    /\ task'[t].pc \in {"loop1", "raise"}

\* the call u has been in the body, or is in it
HasEntered(u) ==
    /\ task[u].read > 0
    /\ task[u].pc # "lock"

\* C31: the file is read before the lock is taken, and of two calls in
\* flight together the one that enters the body later holds a snapshot
\* read later: a call that enters has read the file, and every call that
\* entered before it read the file before it did.
C31_LaterPassNewerSnapshot ==
    [][\A t \in Tasks : Enters(t) =>
          /\ task[t].read > 0
          /\ task[t].configurations = task'[t].configurations
          /\ \A u \in Tasks \ {t} :
               HasEntered(u) => task[u].read < task[t].read]_vars

\* two calls are in flight together: the one that read the file earlier is
\* in the body, the one that read a different file later waits for the lock
C31_Witness ==
    \E t, u \in Tasks :
        /\ lock.owner = t
        /\ task[t].pc \in {"loop1", "loop2"}
        /\ task[u].pc = "lock"
        /\ task[t].read > 0
        /\ task[t].read < task[u].read
        /\ task[t].configurations # task[u].configurations

\* the call t got into the body and ended with an error
Aborted(t) == task[t].pc = "failed" /\ task[t].read > 0

\* C32: a call that raises inside the body gives the lock back: the lock is
\* held only by a call that is inside the body, a call that is raising can
\* always leave, and when it has left the lock is free for the calls after
\* it.
C32_AbortedPassReleasesLock ==
    /\ \A t \in Tasks : lock.owner = t => InPass(t)
    /\ \A t \in Tasks : task[t].pc = "raise" => ENABLED Release(t)
    /\ (\A t \in Tasks : ~InPass(t)) => lock.owner = 0

\* a call has ended with an error raised inside the body, and a call that
\* read the file after it holds the lock and is at work in the body
C32_Witness ==
    \E t, u \in Tasks :
        /\ Aborted(t)
        /\ task[u].read > task[t].read
        /\ lock.owner = u
        /\ task[u].pc \in {"loop1", "join", "delete", "loop2"}

\* the worker w begins process_single_stream in this step
Begins(w) == ~notify.worker[w].started /\ notify'.worker[w].started

\* this step is the first turn of the frame loop of the worker w
FirstFrame(w) ==
    /\ notify.worker[w].started
    /\ \A i \in 1..Len(notify.frames) : notify.frames[i].worker # w
    /\ Len(notify'.frames) = Len(notify.frames) + 1
    /\ notify'.frames[Len(notify'.frames)].worker = w

\* on the frame f the first item of notifications is not skipped, and is
\* sent to if there is a message for it
FirstChannelNotSuppressed(f) ==
    /\ f.t - f.before >= Seconds(Cooldown)
    /\ f.items # <<>> =>
         /\ f.log[1][1] # "skip"
         /\ Message(f.t, f.warnings, f.items[1][2]) # NoMessage
              => /\ f.log[1][1] = "send"
                 /\ f.log[1][2] = f.items[1][1]

\* C34: a worker begins with last_notification_time at the whole second of
\* its start less 300 seconds, and on the first frame it processes the
\* cooldown skips nothing for the first item of notifications: when there
\* is a message for it, send_notification is called.
C34_FirstFrameNotSuppressed ==
    [][\A w \in Workers :
          /\ Begins(w) =>
                notify'.worker[w].last = int(notify.clock) - Seconds(Cooldown)
          /\ FirstFrame(w) =>
                FirstChannelNotSuppressed(notify'.frames[Len(notify'.frames)])]_vars

\* a worker has processed its first frame less than a second after the whole
\* second of its start, at a time that is not a whole second, and a
\* notification was sent for the first item of its notifications
C34_Witness ==
    \E i \in 1..Len(notify.frames) :
        LET f == notify.frames[i]
        IN  /\ \A j \in 1..(i - 1) : notify.frames[j].worker # f.worker
            /\ f.items # <<>>
            /\ f.log[1][1] = "send"
            /\ f.t - f.before < Seconds(Cooldown + 1)
            /\ int(f.t) # f.t

\* the calls of the last turn that are of the kind k
EventsOf(k) == SelectSeq(frame_loop.events, LAMBDA e : e[1] = k)

\* the calls of the last turn between the analysis and the push
Decided ==
    SelectSeq(frame_loop.events, LAMBDA e : e[1] \in {"skip", "quiet", "send"})

\* the last turn began with the detection and the analysis, went on with
\* the loop over notifications, and ended with the calls of ending
InOrder(ending) ==
    frame_loop.events = <<Detected, Analysed>> \o Decided \o ending

\* C33 as stated: every turn is the detection, the analysis, the decisions
\* and sends for the notifications, one add_to_stream under the key of the
\* worker with maxlen 10, and one update_capture_interval, in this order,
\* whatever was decided; without notifications nothing is sent.
C33_PushAndReportEveryFrame ==
    frame_loop.turn > 0 =>
      /\ Len(EventsOf("push")) = 1
      /\ Len(EventsOf("report")) = 1
      /\ EventsOf("push")[1][2] = frame_loop.key
      /\ EventsOf("push")[1][3] = StreamMaxLen
      /\ InOrder(EventsOf("push") \o EventsOf("report"))
      /\ Channels(notify.notifications) = <<>> => Decided = <<>>

\* C33 amended: the same, but add_to_stream is called once on a platform
\* other than Windows and not at all on Windows.
C33_PushUnlessWindows ==
    frame_loop.turn > 0 =>
      /\ Len(EventsOf("push")) = (IF frame_loop.is_windows THEN 0 ELSE 1)
      /\ Len(EventsOf("report")) = 1
      /\ \A i \in 1..Len(EventsOf("push")) :
           /\ EventsOf("push")[i][2] = frame_loop.key
           /\ EventsOf("push")[i][3] = StreamMaxLen
      /\ InOrder(EventsOf("push") \o EventsOf("report"))
      /\ Channels(notify.notifications) = <<>> => Decided = <<>>

\* not on Windows, a turn in which the send for one item of notifications
\* failed and the send for the next succeeded: the frame was pushed and the
\* interval set
C33_Witness ==
    /\ frame_loop.turn > 0
    /\ ~frame_loop.is_windows
    /\ \E i, j \in 1..Len(Decided) :
         /\ i < j
         /\ Decided[i][1] = "send" /\ Decided[i][4] # StatusOK
         /\ Decided[j][1] = "send" /\ Decided[j][4] = StatusOK
    /\ Len(EventsOf("push")) = 1
    /\ Len(EventsOf("report")) = 1

====
